---- MODULE Spec2Model ----
(***************************************************************************)
(* The local line-matching and scoring engine of the line-memorization     *)
(* coach (src/lib/compare.ts): tokenize, align, evaluateLineLocally.       *)
(*                                                                         *)
(* A JavaScript string is modelled as the sequence of its characters, each *)
(* a one-character TLA+ string.  A string the program builds from literals *)
(* (a feedback message, the corrections text) is a sequence of fragments:  *)
(* a literal is one fragment, a token contributes its characters.          *)
(***************************************************************************)
EXTENDS Integers, Sequences, FiniteSets, TLC

VARIABLES
    spoken,        \* argument `spoken` of evaluateLineLocally (a JS value)
    correct,       \* argument `correct` of evaluateLineLocally (a JS value)
    spokenWords,   \* local spokenWords (compare.ts:69)
    correctWords,  \* local correctWords (compare.ts:70)
    ops,           \* local ops (compare.ts:75)
    result,        \* what the call returned, or that it threw
    previous,      \* the result of the caller's previous attempt
    pc,            \* "ready": the call is pending; "done": it has returned
    similarity,    \* what wordSimilarity(spoken, correct) returned
    alternatives,  \* argument `alternatives` of pickBestAlternative
    best,          \* what pickBestAlternative returned
    chunks,        \* what splitIntoChunks returned
    lastIndex,     \* the lastIndex of each RegExp of CONTRACTIONS
    calls,         \* the calls of the core functions made so far, with results
    \* The practice screen (src/app/script/[id]/practice.tsx).  A state of the
    \* component and the ref that shadows it are one variable: every handler
    \* that sets one sets the other, or an effect does before the next event.
    script,                 \* state script: its scriptToken
    settings,               \* state settings: its anthropicApiKey
    progress,               \* state progress: the line progress of each line
    myLines,                \* state myLines and myLinesRef: the ids of the lines
    currentIndex,           \* state currentIndex and currentIndexRef
    practiceState,          \* state practiceState and practiceStateRef
    feedback,               \* state feedback
    sceneConfig,            \* state sceneConfig and sceneConfigRef
    sceneModeResults,       \* state sceneModeResults
    autoAdvancing,          \* state autoAdvancing
    interimTranscript,      \* interimTranscriptRef
    finalTranscript,        \* finalTranscriptRef
    hasFinal,               \* hasFinalRef
    allAlternatives,        \* allAlternativesRef
    calledForLine,          \* calledForLineRef
    accumulatedTranscript,  \* accumulatedTranscriptRef
    autoStopTimer,          \* autoStopTimerRef: a timeout id, or 0 for null
    autoAdvanceTimer,       \* autoAdvanceTimerRef: a timeout id, or 0 for null
    timeouts,               \* the pending timeouts: what each id will run
    recognizer,             \* ExpoSpeechRecognitionModule: "off", "on", "stopping"
    inFlight,               \* the calls of a remote evaluator awaited
    alert,                  \* the title of the Alert the last handler raised
    event                   \* what the last handler did of handleEvaluate

\* The variables of the helpers of the practice screen and of the chunker
helpers == <<similarity, alternatives, best, chunks>>

\* The variables of one call of evaluateLineLocally
core == <<spoken, correct, spokenWords, correctWords, ops, result, previous, pc>>

\* The state shared by the calls of the core functions
calling == <<lastIndex, calls>>

\* The variables of the practice screen
screen == <<script, settings, progress, myLines, currentIndex, practiceState,
            feedback, sceneConfig, sceneModeResults, autoAdvancing,
            interimTranscript, finalTranscript, hasFinal, allAlternatives,
            calledForLine, accumulatedTranscript, autoStopTimer, autoAdvanceTimer,
            timeouts, recognizer, inFlight, alert, event>>

vars == <<spoken, correct, spokenWords, correctWords, ops, result, previous, pc,
          helpers, calling, screen>>

-----------------------------------------------------------------------------
(* Characters *)

LowerLetters ==
    <<"a","b","c","d","e","f","g","h","i","j","k","l","m",
      "n","o","p","q","r","s","t","u","v","w","x","y","z">>

UpperLetters ==
    <<"A","B","C","D","E","F","G","H","I","J","K","L","M",
      "N","O","P","Q","R","S","T","U","V","W","X","Y","Z">>

DigitChars == {"0","1","2","3","4","5","6","7","8","9"}

Range(s) == {s[i] : i \in DOMAIN s}

\* \w of a JavaScript regular expression: [A-Za-z0-9_]
WordChars ==
    Range(LowerLetters) \cup Range(UpperLetters) \cup DigitChars \cup {"_"}

IsWordChar(c) == c \in WordChars

\* A character outside ASCII is written by its code point: a no-break space,
\* a capital and a small e with acute accent
NoBreakSpace == "U+00A0"
CapitalEAcute == "U+00C9"
SmallEAcute == "U+00E9"

\* \s of a JavaScript regular expression (its ASCII part and the no-break
\* space)
IsSpaceChar(c) == c \in {" ", "\t", "\n", "\r", NoBreakSpace}

\* String.prototype.toLowerCase, one character
UpperChars == Range(UpperLetters)

LowerChar(c) ==
    IF c \in UpperChars
    THEN LowerLetters[CHOOSE i \in DOMAIN UpperLetters : UpperLetters[i] = c]
    ELSE IF c = CapitalEAcute THEN SmallEAcute
    ELSE c

-----------------------------------------------------------------------------
(* JavaScript values passed as arguments *)

JSString(chars) == [type |-> "string", value |-> chars]
JSNull          == [type |-> "null", value |-> <<>>]
JSUndefined     == [type |-> "undefined", value |-> <<>>]
JSNumber        == [type |-> "number", value |-> <<"4","2">>]

\* The TypeError of calling .toLowerCase() on a value that has no such method
TypeError == [threw |-> "TypeError"]

-----------------------------------------------------------------------------
(* Normalizer *)

CONTRACTIONS == <<
    << <<"c","a","n","'","t">>,             <<"c","a","n","n","o","t">> >>,
    << <<"w","o","n","'","t">>,             <<"w","i","l","l"," ","n","o","t">> >>,
    << <<"i","'","m">>,                     <<"i"," ","a","m">> >>,
    << <<"i","'","l","l">>,                 <<"i"," ","w","i","l","l">> >>,
    << <<"i","'","d">>,                     <<"i"," ","w","o","u","l","d">> >>,
    << <<"i","'","v","e">>,                 <<"i"," ","h","a","v","e">> >>,
    << <<"y","o","u","'","r","e">>,         <<"y","o","u"," ","a","r","e">> >>,
    << <<"y","o","u","'","l","l">>,         <<"y","o","u"," ","w","i","l","l">> >>,
    << <<"y","o","u","'","v","e">>,         <<"y","o","u"," ","h","a","v","e">> >>,
    << <<"i","t","'","s">>,                 <<"i","t"," ","i","s">> >>,
    << <<"t","h","a","t","'","s">>,         <<"t","h","a","t"," ","i","s">> >>,
    << <<"d","o","n","'","t">>,             <<"d","o"," ","n","o","t">> >>,
    << <<"d","i","d","n","'","t">>,         <<"d","i","d"," ","n","o","t">> >>,
    << <<"w","a","s","n","'","t">>,         <<"w","a","s"," ","n","o","t">> >>,
    << <<"w","e","r","e","n","'","t">>,     <<"w","e","r","e"," ","n","o","t">> >>,
    << <<"c","o","u","l","d","n","'","t">>, <<"c","o","u","l","d"," ","n","o","t">> >>,
    << <<"w","o","u","l","d","n","'","t">>, <<"w","o","u","l","d"," ","n","o","t">> >>,
    << <<"s","h","o","u","l","d","n","'","t">>,
                                    <<"s","h","o","u","l","d"," ","n","o","t">> >>,
    << <<"h","e","'","s">>,                 <<"h","e"," ","i","s">> >>,
    << <<"s","h","e","'","s">>,             <<"s","h","e"," ","i","s">> >>,
    << <<"t","h","e","y","'","r","e">>,     <<"t","h","e","y"," ","a","r","e">> >>,
    << <<"w","e","'","r","e">>,             <<"w","e"," ","a","r","e">> >>
>>

\* Whether /\b<pattern>\b/ matches text at position i.  A pattern starts and
\* ends with a letter, so \b holds before it when no word character precedes
\* and after it when no word character follows.
MatchesAt(text, i, pattern) ==
    /\ i + Len(pattern) - 1 <= Len(text)
    /\ text[i] = pattern[1]
    /\ \A k \in DOMAIN pattern : text[i + k - 1] = pattern[k]
    /\ (i = 1 \/ ~IsWordChar(text[i - 1]))
    /\ (i + Len(pattern) > Len(text) \/ ~IsWordChar(text[i + Len(pattern)]))

\* The matches of /\b<pattern>\b/ at or after position i
MatchesFrom(text, i, pattern) ==
    {j \in i..Len(text) : MatchesAt(text, j, pattern)}

SetMin(S) == CHOOSE x \in S : \A y \in S : x <= y

\* text.replace(pattern, expansion) with the g flag, from position i on: the
\* next match is the leftmost one at or after i, the text before it is kept,
\* and the search resumes after the match (matches do not overlap).
RECURSIVE ReplaceAll(_, _, _, _)
ReplaceAll(text, i, pattern, expansion) ==
    IF MatchesFrom(text, i, pattern) = {} THEN SubSeq(text, i, Len(text))
    ELSE LET j == SetMin(MatchesFrom(text, i, pattern))
         IN  SubSeq(text, i, j - 1) \o expansion
                 \o ReplaceAll(text, j + Len(pattern), pattern, expansion)

\* A bug: the text matched against the table in the case it was written in
KeepCase(text) == text

toLowerCase(text) == [i \in DOMAIN text |-> LowerChar(text[i])]

RECURSIVE ApplyContractions(_, _)
ApplyContractions(text, k) ==
    IF k > Len(CONTRACTIONS) THEN text
    ELSE ApplyContractions(
             ReplaceAll(text, 1, CONTRACTIONS[k][1], CONTRACTIONS[k][2]), k + 1)

expandContractions(text) == ApplyContractions(toLowerCase(text), 1)

\* A bug: the characters that are no word characters left in the text
KeepPunctuation(text) == text

\* .replace(/[^\w\s]/g, '')
StripPunctuation(text) ==
    SelectSeq(text, LAMBDA c : IsWordChar(c) \/ IsSpaceChar(c))

\* .split(/\s+/): every maximal run of whitespace separates two pieces, so a
\* text that starts or ends with whitespace has an empty first or last piece,
\* and the empty text splits into one empty piece.
SplitOnSpace(text) ==
    LET starts == {i \in DOMAIN text :
                      IsSpaceChar(text[i]) /\ (i = 1 \/ ~IsSpaceChar(text[i - 1]))}
        ends   == {i \in DOMAIN text :
                      IsSpaceChar(text[i])
                          /\ (i = Len(text) \/ ~IsSpaceChar(text[i + 1]))}
        \* the k-th run of whitespace is text[RunStart(k)..RunEnd(k)]
        RunStart(k) == IF k > Cardinality(starts) THEN Len(text) + 1
                       ELSE CHOOSE i \in starts :
                                Cardinality({j \in starts : j < i}) = k - 1
        RunEnd(k)   == IF k = 0 THEN 0
                       ELSE CHOOSE i \in ends :
                                Cardinality({j \in ends : j < i}) = k - 1
    IN  [k \in 1..(Cardinality(starts) + 1) |->
            SubSeq(text, RunEnd(k - 1) + 1, RunStart(k) - 1)]

\* .filter(Boolean) on an array of strings
FilterNonEmpty(pieces) == SelectSeq(pieces, LAMBDA p : p # <<>>)

tokenize(text) ==
    FilterNonEmpty(SplitOnSpace(StripPunctuation(expandContractions(text))))

-----------------------------------------------------------------------------
(* JavaScript Number arithmetic.  A Number is an IEEE-754 double: the        *)
(* quotient p / q and the product x * 100 are each rounded to a 53-bit       *)
(* significand, to nearest with ties to even.  A significand is held as a    *)
(* sequence of bits, most significant first, with the number of its bits     *)
(* that lie after the binary point.  Long division and multiplication work   *)
(* on digits of 16 bits.                                                     *)

MantissaBits == 53

Zeros(n) == [i \in 1..n |-> 0]

PadBits(x, len) == Zeros(len - Len(x)) \o x

RECURSIVE Pow2(_)
Pow2(k) == IF k = 0 THEN 1 ELSE 2 * Pow2(k - 1)

\* The n low bits of v, most significant first
IntToBits(v, n) == [i \in 1..n |-> (v \div Pow2(n - i)) % 2]

RECURSIVE BitsToInt(_)
BitsToInt(bits) ==
    IF bits = <<>> THEN 0
    ELSE 2 * BitsToInt(SubSeq(bits, 1, Len(bits) - 1)) + bits[Len(bits)]

\* The bits of a sequence of 16-bit digits
DigitsToBits(digits) ==
    [i \in 1..(16 * Len(digits)) |->
        IntToBits(digits[(i - 1) \div 16 + 1], 16)[((i - 1) % 16) + 1]]

\* The 16-bit digits of a bit sequence whose length is a multiple of 16
BitsToDigits(bits) ==
    [k \in 1..(Len(bits) \div 16) |-> BitsToInt(SubSeq(bits, 16 * k - 15, 16 * k))]

\* bits without its leading zeros
StripZeros(bits) ==
    IF \A i \in DOMAIN bits : bits[i] = 0 THEN <<>>
    ELSE SubSeq(bits, CHOOSE i \in DOMAIN bits :
                          bits[i] = 1 /\ \A j \in 1..(i - 1) : bits[j] = 0,
                Len(bits))

\* bits + 1
IncrementBits(bits) ==
    IF \A i \in DOMAIN bits : bits[i] = 1 THEN <<1>> \o Zeros(Len(bits))
    ELSE LET last == CHOOSE i \in DOMAIN bits :
                         bits[i] = 0 /\ \A j \in (i + 1)..Len(bits) : bits[j] = 1
         IN  [i \in DOMAIN bits |->
                 IF i < last THEN bits[i] ELSE IF i = last THEN 1 ELSE 0]

\* bits (leading bit 1, frac of them after the point) rounded to MantissaBits
\* bits, to nearest, ties to even
RoundToDouble(bits, frac) ==
    IF Len(bits) <= MantissaBits THEN [bits |-> bits, frac |-> frac]
    ELSE LET kept    == SubSeq(bits, 1, MantissaBits)
             dropped == Len(bits) - MantissaBits
             guard   == bits[MantissaBits + 1]
             sticky  == \E i \in (MantissaBits + 2)..Len(bits) : bits[i] = 1
             roundUp == guard = 1 /\ (sticky \/ kept[MantissaBits] = 1)
             rounded == IF roundUp THEN IncrementBits(kept) ELSE kept
         IN  IF Len(rounded) > MantissaBits
             THEN [bits |-> SubSeq(rounded, 1, MantissaBits), frac |-> frac - dropped - 1]
             ELSE [bits |-> rounded, frac |-> frac - dropped]

\* Long division r / den (r < den) to count digits of 16 bits, with the
\* remainder left
RECURSIVE DivideDigits(_, _, _, _)
DivideDigits(r, den, count, digits) ==
    IF Len(digits) = count THEN [digits |-> digits, rem |-> r]
    ELSE DivideDigits((r * 65536) % den, den, count,
                      Append(digits, (r * 65536) \div den))

\* The first count binary digits of r / den (r < den), and whether the rest
\* of the expansion is nonzero
DivideBits(r, den, count) ==
    LET d    == DivideDigits(r, den, count \div 16 + 1, <<>>)
        bits == DigitsToBits(d.digits)
    IN  [bits    |-> SubSeq(bits, 1, count),
         inexact |-> d.rem # 0 \/ \E i \in (count + 1)..Len(bits) : bits[i] = 1]

\* num / den scaled by a power of two into [1, 2)
RECURSIVE ScaleUp(_, _, _)
ScaleUp(num, den, e) == IF num >= den THEN [num |-> num, exp |-> e]
                        ELSE ScaleUp(2 * num, den, e + 1)

RECURSIVE ScaleDown(_, _, _)
ScaleDown(num, den, e) == IF num < 2 * den THEN [den |-> den, exp |-> e]
                          ELSE ScaleDown(num, 2 * den, e + 1)

\* The double p / q, for integers p > 0 and q > 0
Divide(p, q) ==
    LET up   == ScaleUp(p, q, 0)
        down == ScaleDown(up.num, q, 0)
        \* up.num / down.den is in [1, 2): one integer bit, then the fraction,
        \* with one more bit than kept (the guard) and the sticky bit
        d    == DivideBits(up.num - down.den, down.den, MantissaBits)
        all  == <<1>> \o d.bits \o <<IF d.inexact THEN 1 ELSE 0>>
    IN  RoundToDouble(all, MantissaBits + 1 + up.exp - down.exp)

\* digits * 100, from the least significant digit k up, with the carry
RECURSIVE TimesHundredDigits(_, _, _, _)
TimesHundredDigits(digits, k, carry, out) ==
    IF k = 0 THEN <<carry>> \o out
    ELSE TimesHundredDigits(digits, k - 1, (digits[k] * 100 + carry) \div 65536,
                            <<(digits[k] * 100 + carry) % 65536>> \o out)

\* The double x * 100
TimesHundred(x) ==
    LET digits  == BitsToDigits(PadBits(x.bits, 64))
        product == StripZeros(DigitsToBits(TimesHundredDigits(digits, Len(digits), 0, <<>>)))
    IN  RoundToDouble(product, x.frac)

\* Math.round of a double x >= 0 below 2^52: the nearest integer, a tie going up
MathRound(x) ==
    LET len  == IF Len(x.bits) > x.frac THEN Len(x.bits) ELSE x.frac + 1
        bits == PadBits(x.bits, len)
    IN  BitsToInt(SubSeq(bits, 1, len - x.frac)) + bits[len - x.frac + 1]

\* Math.round((matches / total) * 100) for integers matches >= 0 and total > 0
RoundedPercent(matches, total) ==
    IF matches = 0 THEN 0 ELSE MathRound(TimesHundred(Divide(matches, total)))

Min(x, y) == IF x <= y THEN x ELSE y

-----------------------------------------------------------------------------
(* Aligner *)

\* a[i-1] === b[j-1]
\* A bug: the comparison of two tokens inverted
DifferentToken(x, y) == x # y

SameToken(x, y) == x = y

Min3(x, y, z) == Min(x, Min(y, z))

\* Row i of the distance table from row i - 1 (prev), extended from the cells
\* filled so far; index k of a row holds column k - 1
RECURSIVE FillRow(_, _, _, _)
FillRow(prev, ai, b, row) ==
    IF Len(row) > Len(b) THEN row
    ELSE LET j == Len(row)
         IN  FillRow(prev, ai, b,
                     Append(row, IF SameToken(ai, b[j])
                                 THEN prev[j]
                                 ELSE 1 + Min3(prev[j], prev[j + 1], row[j])))

\* The distance table from the rows filled so far; index k holds row k - 1
RECURSIVE DpRows(_, _, _)
DpRows(a, b, rows) ==
    IF Len(rows) > Len(a) THEN rows
    ELSE LET i == Len(rows)
         IN  DpRows(a, b, Append(rows, FillRow(rows[i], a[i], b, <<i>>)))

\* The table after its first row and first column are set
DpTable(a, b) == DpRows(a, b, << [j \in 1..(Len(b) + 1) |-> j - 1] >>)

Dp(table, i, j) == table[i + 1][j + 1]

\* A bug: the two tokens of a substitution in each other's place
BacktrackStepSwapped(a, b, dp, i, j) ==
    IF i > 0 /\ j > 0 /\ SameToken(a[i], b[j])
    THEN [op |-> [type |-> "match", spoken |-> a[i], correct |-> b[j]],
          i |-> i - 1, j |-> j - 1]
    ELSE IF i > 0 /\ j > 0 /\ Dp(dp, i, j) = Dp(dp, i - 1, j - 1) + 1
    THEN [op |-> [type |-> "sub", spoken |-> b[j], correct |-> a[i]],
          i |-> i - 1, j |-> j - 1]
    ELSE IF i > 0 /\ Dp(dp, i, j) = Dp(dp, i - 1, j) + 1
    THEN [op |-> [type |-> "ins", spoken |-> a[i]], i |-> i - 1, j |-> j]
    ELSE [op |-> [type |-> "del", correct |-> b[j]], i |-> i, j |-> j - 1]

\* A bug: a substitution taken without asking the table whether it lies on a
\* shortest path
BacktrackStepGreedy(a, b, dp, i, j) ==
    IF i > 0 /\ j > 0 /\ SameToken(a[i], b[j])
    THEN [op |-> [type |-> "match", spoken |-> a[i], correct |-> b[j]],
          i |-> i - 1, j |-> j - 1]
    ELSE IF i > 0 /\ j > 0
    THEN [op |-> [type |-> "sub", spoken |-> a[i], correct |-> b[j]],
          i |-> i - 1, j |-> j - 1]
    ELSE IF i > 0 /\ Dp(dp, i, j) = Dp(dp, i - 1, j) + 1
    THEN [op |-> [type |-> "ins", spoken |-> a[i]], i |-> i - 1, j |-> j]
    ELSE [op |-> [type |-> "del", correct |-> b[j]], i |-> i, j |-> j - 1]

\* A bug: the insertion asked for before the substitution
BacktrackStepInsertFirst(a, b, dp, i, j) ==
    IF i > 0 /\ j > 0 /\ SameToken(a[i], b[j])
    THEN [op |-> [type |-> "match", spoken |-> a[i], correct |-> b[j]],
          i |-> i - 1, j |-> j - 1]
    ELSE IF i > 0 /\ Dp(dp, i, j) = Dp(dp, i - 1, j) + 1
    THEN [op |-> [type |-> "ins", spoken |-> a[i]], i |-> i - 1, j |-> j]
    ELSE IF i > 0 /\ j > 0 /\ Dp(dp, i, j) = Dp(dp, i - 1, j - 1) + 1
    THEN [op |-> [type |-> "sub", spoken |-> a[i], correct |-> b[j]],
          i |-> i - 1, j |-> j - 1]
    ELSE [op |-> [type |-> "del", correct |-> b[j]], i |-> i, j |-> j - 1]

\* One turn of the backtrack loop at (i, j): the op it unshifts and the cell
\* it moves to.  The last branch is never taken with j = 0: in column 0 a cell
\* is one more than the cell above it, so the branch before it is taken.
BacktrackStep(a, b, dp, i, j) ==
    IF i > 0 /\ j > 0 /\ SameToken(a[i], b[j])
    THEN [op |-> [type |-> "match", spoken |-> a[i], correct |-> b[j]],
          i |-> i - 1, j |-> j - 1]
    ELSE IF i > 0 /\ j > 0 /\ Dp(dp, i, j) = Dp(dp, i - 1, j - 1) + 1
    THEN [op |-> [type |-> "sub", spoken |-> a[i], correct |-> b[j]],
          i |-> i - 1, j |-> j - 1]
    ELSE IF i > 0 /\ Dp(dp, i, j) = Dp(dp, i - 1, j) + 1
    THEN [op |-> [type |-> "ins", spoken |-> a[i]], i |-> i - 1, j |-> j]
    ELSE [op |-> [type |-> "del", correct |-> b[j]], i |-> i, j |-> j - 1]

\* A bug: the loop left as soon as either sequence is used up
RECURSIVE BacktrackWhileBoth(_, _, _, _, _, _)
BacktrackWhileBoth(a, b, dp, i, j, ops_) ==
    IF ~(i > 0 /\ j > 0) THEN ops_
    ELSE LET step == BacktrackStep(a, b, dp, i, j)
         IN  BacktrackWhileBoth(a, b, dp, step.i, step.j, <<step.op>> \o ops_)

\* The backtrack loop from (i, j), with the ops unshifted so far
RECURSIVE Backtrack(_, _, _, _, _, _)
Backtrack(a, b, dp, i, j, ops_) ==
    IF ~(i > 0 \/ j > 0) THEN ops_
    ELSE LET step == BacktrackStep(a, b, dp, i, j)
         IN  Backtrack(a, b, dp, step.i, step.j, <<step.op>> \o ops_)

align(a, b) == Backtrack(a, b, DpTable(a, b), Len(a), Len(b), <<>>)

-----------------------------------------------------------------------------
(* Scorer *)

\* No FeedbackResult (yet)
NoResult == [pending |-> TRUE]

NothingToCheck == [accurate |-> TRUE, score |-> 100, feedback |-> "Nothing to check."]

NoSpeechDetected == [accurate |-> FALSE, score |-> 0, feedback |-> "No speech detected."]

MatchCount(alignment) == Len(SelectSeq(alignment, LAMBDA o : o.type = "match"))

\* A bug: the score taken as what the errors leave of 100
ScoreOfErrors(alignment, words) ==
    Min(100, 100 - RoundedPercent(Len(alignment) - MatchCount(alignment), Len(words)))

\* A bug: the matches counted against the ops of the alignment, not against
\* the words of the correct line
ScoreOverAlignment(alignment, words) ==
    Min(100, RoundedPercent(MatchCount(alignment), Len(alignment)))

Score(alignment, words) ==
    Min(100, RoundedPercent(MatchCount(alignment), Len(words)))

\* A bug: the threshold of the feedback band below
AccurateFromSixty(score) == score >= 60

Accurate(score) == score >= 80

\* A bug: the first band starting at the bound of the corrections
FeedbackNailedFromNinety(score) ==
    IF score >= 90 THEN "Nailed it!"
    ELSE IF score >= 80 THEN "Good -- just a few words off."
    ELSE IF score >= 60
    THEN "Getting there -- you have the idea, but check the exact wording."
    ELSE IF score >= 40
    THEN "Partial -- you got part of it. Take another look at the full line."
    ELSE "Not quite -- try reading the line again before your next attempt."

\* The messages' em dash (U+2014) is written -- here
Feedback(score) ==
    IF score >= 95 THEN "Nailed it!"
    ELSE IF score >= 80 THEN "Good -- just a few words off."
    ELSE IF score >= 60
    THEN "Getting there -- you have the idea, but check the exact wording."
    ELSE IF score >= 40
    THEN "Partial -- you got part of it. Take another look at the full line."
    ELSE "Not quite -- try reading the line again before your next attempt."

\* A bug: the bound included
WantsCorrectionsUpToNinety(score) == score <= 90

WantsCorrections(score) == score < 90

ItemsLimit == 5

Ellipsis == <<"...">>

\* The template literals of the three kinds of correction; the arrow (U+2192)
\* of the first is written -> here
RenderOp(op) ==
    IF op.type = "sub"
    THEN <<"said \"">> \o op.spoken \o <<"\" -> correct: \"">> \o op.correct \o <<"\"">>
    ELSE IF op.type = "del" THEN <<"missing: \"">> \o op.correct \o <<"\"">>
    ELSE <<"extra: \"">> \o op.spoken \o <<"\"">>

\* A bug: the limit tested one item late
LimitPassed(items) == Len(items) > ItemsLimit

LimitReached(items) == Len(items) >= ItemsLimit

\* The loop over ops from index k on, with the items pushed so far
RECURSIVE CollectItems(_, _, _)
CollectItems(alignment, k, items) ==
    IF k > Len(alignment) THEN items
    ELSE IF LimitReached(items) THEN Append(items, Ellipsis)
    ELSE IF alignment[k].type \in {"sub", "del", "ins"}
    THEN CollectItems(alignment, k + 1, Append(items, RenderOp(alignment[k])))
    ELSE CollectItems(alignment, k + 1, items)

\* items.join('; ')
RECURSIVE Join(_)
Join(items) ==
    IF Len(items) = 0 THEN <<>>
    ELSE IF Len(items) = 1 THEN items[1]
    ELSE Join(SubSeq(items, 1, Len(items) - 1)) \o <<"; ">> \o items[Len(items)]

\* The part of evaluateLineLocally after the two early returns
Scored(alignment, words) ==
    LET score == Score(alignment, words)
        items == CollectItems(alignment, 1, <<>>)
        base  == [accurate |-> Accurate(score), score |-> score,
                  feedback |-> Feedback(score)]
    IN  IF WantsCorrections(score) /\ Len(items) > 0
        THEN [accurate |-> base.accurate, score |-> base.score,
              feedback |-> base.feedback, corrections |-> Join(items)]
        ELSE base

\* A bug: the two returns in the other order
EarlyReturnSpokenFirst(sw, cw) ==
    IF Len(sw) = 0 THEN NoSpeechDetected
    ELSE IF Len(cw) = 0 THEN NothingToCheck
    ELSE NoResult

\* A bug: the second return left out
EarlyReturnCorrectOnly(sw, cw) ==
    IF Len(cw) = 0 THEN NothingToCheck ELSE NoResult

\* The two returns before the alignment: the result returned, or NoResult
\* when the call goes on to the alignment
EarlyReturn(sw, cw) ==
    IF Len(cw) = 0 THEN NothingToCheck
    ELSE IF Len(sw) = 0 THEN NoSpeechDetected
    ELSE NoResult

\* The call evaluateLineLocally(s, c): its locals and what it returns.  A local
\* the call never assigns is <<>>.  tokenize calls text.toLowerCase(), which
\* throws a TypeError when text is not a string.
evaluateLineLocally(s, c) ==
    IF s.type # "string" \/ c.type # "string"
    THEN [spokenWords |-> <<>>, correctWords |-> <<>>, ops |-> <<>>,
          result |-> TypeError]
    ELSE LET sw == tokenize(s.value)
             cw == tokenize(c.value)
         IN  IF EarlyReturn(sw, cw) # NoResult
             THEN [spokenWords |-> sw, correctWords |-> cw, ops |-> <<>>,
                   result |-> EarlyReturn(sw, cw)]
             ELSE LET alignment == align(sw, cw)
                  IN  [spokenWords |-> sw, correctWords |-> cw, ops |-> alignment,
                       result |-> Scored(alignment, cw)]

-----------------------------------------------------------------------------------------------------------------------------------------------------
(* Inputs *)

\* words joined by single spaces
RECURSIVE JoinWords(_)
JoinWords(ws) ==
    IF Len(ws) = 0 THEN <<>>
    ELSE IF Len(ws) = 1 THEN ws[1]
    ELSE JoinWords(SubSeq(ws, 1, Len(ws) - 1)) \o <<" ">> \o ws[Len(ws)]

\* Raw words as they may stand in a script or a transcript: a plain word, the
\* same word capitalised and followed by a comma, a table contraction, its
\* second word alone, and a dash (a word of punctuation only)
Lexemes == { <<"b","e">>, <<"B","e",",">>, <<"I","'","m">>, <<"a","m">>, <<"-","-">> }

MaxWords == 2

Texts == {JoinWords(ws) : ws \in UNION {[1..k -> Lexemes] : k \in 0..MaxWords}}

\* Values a caller outside the type checker can pass where a string is expected
Malformed == {JSNull, JSUndefined, JSNumber}

\* Longer lines are made of distinct plain two-letter words
Alphabet == <<"a", "b", "c", "d", "e", "f", "g">>

Word(i) == << Alphabet[((i - 1) \div 7) + 1], Alphabet[((i - 1) % 7) + 1] >>

\* A word that is not in any line: the word said in place of, or next to, Word(i)
Wrong(i) == <<"x">> \o Word(i)

\* The words from..to of the line
Words(from, to) == [i \in 1..(to - from + 1) |-> Word(from + i - 1)]

Wrongs(from, to) == [i \in 1..(to - from + 1) |-> Wrong(from + i - 1)]

\* Each of the words from..to followed by a wrong word
WithExtras(from, to) ==
    [i \in 1..(2 * (to - from + 1)) |->
        IF i % 2 = 1 THEN Word(from + (i - 1) \div 2) ELSE Wrong(from + (i - 1) \div 2)]

Line(n) == JoinWords(Words(1, n))

\* The line of n words said with its words p..q garbled: each replaced by a
\* wrong word, left out, or followed by a wrong word
Garbled(n, p, q, kind) ==
    JoinWords(Words(1, p - 1)
              \o (IF kind = "sub" THEN Wrongs(p, q)
                  ELSE IF kind = "del" THEN <<>>
                  ELSE WithExtras(p, q))
              \o Words(q + 1, n))

\* text with the word w put after its first p words
InsertWord(text, p, w) ==
    LET ws == SplitOnSpace(text)
    IN  JoinWords(SubSeq(ws, 1, p) \o <<w>> \o SubSeq(ws, p + 1, Len(ws)))

\* Words that are in no line, as a transcript may hold them: a plain word, a
\* capitalised one with a comma, and a contraction (two tokens)
WrongWords == { <<"z","z">>, <<"U","m",",">>, <<"I","'","m">> }

MaxLineWords == 40

MaxCapWords == 10

MaxInsertWords == 8

-----------------------------------------------------------------------------
(* The caller's call of evaluateLineLocally *)

Evaluate ==
    /\ pc = "ready"
    /\ LET call == evaluateLineLocally(spoken, correct)
       IN  /\ spokenWords'  = call.spokenWords
           /\ correctWords' = call.correctWords
           /\ ops'          = call.ops
           /\ result'       = call.result
    /\ pc' = "done"
    /\ UNCHANGED <<spoken, correct, previous, helpers, calling, screen>>

\* A second attempt at the same line: the transcript of the first with one
\* wrong word put in.  The result of the first attempt is kept for comparison.
InsertWrongWord ==
    /\ pc = "done"
    /\ previous = NoResult
    /\ \E p \in 0..Len(SplitOnSpace(spoken.value)), w \in WrongWords :
          spoken' = JSString(InsertWord(spoken.value, p, w))
    /\ previous' = result
    /\ pc' = "ready"
    /\ UNCHANGED <<correct, spokenWords, correctWords, ops, result, helpers, calling, screen>>

\* No RegExp of the table has been used: lastIndex is 0
NoCalls ==
    /\ lastIndex = [k \in DOMAIN CONTRACTIONS |-> 0]
    /\ calls = <<>>

\* The practice screen before it has loaded a script: the initial values of
\* its states and refs
Unmounted ==
    /\ script = JSNull
    /\ settings = JSNull
    /\ progress = JSNull
    /\ myLines = <<>>
    /\ currentIndex = 0
    /\ practiceState = "practice_idle"
    /\ feedback = JSNull
    /\ sceneConfig = JSNull
    /\ sceneModeResults = <<>>
    /\ autoAdvancing = FALSE
    /\ interimTranscript = <<>>
    /\ finalTranscript = <<>>
    /\ hasFinal = FALSE
    /\ allAlternatives = <<>>
    /\ calledForLine = FALSE
    /\ accumulatedTranscript = <<>>
    /\ autoStopTimer = 0
    /\ autoAdvanceTimer = 0
    /\ timeouts = <<>>
    /\ recognizer = "off"
    /\ inFlight = <<>>
    /\ alert = <<>>
    /\ event = [handler |-> "none"]

\* What holds of the variables before any call
Fresh ==
    /\ NoCalls
    /\ Unmounted
    /\ spokenWords = <<>>
    /\ correctWords = <<>>
    /\ ops = <<>>
    /\ result = NoResult
    /\ previous = NoResult
    /\ pc = "ready"
    /\ similarity = NoResult
    /\ alternatives = <<>>
    /\ best = <<>>
    /\ chunks = <<>>

\* Any two short texts
Init ==
    /\ spoken \in {JSString(t) : t \in Texts}
    /\ correct \in {JSString(t) : t \in Texts}
    /\ Fresh

Next == Evaluate

Spec == Init /\ [][Next]_vars

\* A short spoken text against a correct line that is no string
InitMalformed ==
    /\ spoken \in {JSString(t) : t \in Texts}
    /\ correct \in Malformed
    /\ Fresh

SpecMalformed == InitMalformed /\ [][Next]_vars

\* A line and its first words: the actor stops early
InitPercent ==
    /\ \E n \in 1..MaxLineWords : \E k \in 1..n :
          /\ correct = JSString(Line(n))
          /\ spoken = JSString(Line(k))
    /\ Fresh

SpecPercent == InitPercent /\ [][Next]_vars

\* A line said with a run of its words garbled
InitCap ==
    /\ \E n \in 1..MaxCapWords : \E p \in 1..n : \E q \in p..n :
       \E kind \in {"sub", "del", "ins"} :
          /\ correct = JSString(Line(n))
          /\ spoken = JSString(Garbled(n, p, q, kind))
    /\ Fresh

SpecCap == InitCap /\ [][Next]_vars

\* A line of at least 4 words said exactly, then with a wrong word put in
InitInsert ==
    /\ \E n \in 4..MaxInsertWords :
          /\ correct = JSString(Line(n))
          /\ spoken = JSString(Line(n))
    /\ Fresh

NextInsert == Evaluate \/ InsertWrongWord

SpecInsert == InitInsert /\ [][NextInsert]_vars

-----------------------------------------------------------------------------
(* The pre-screen of the practice screen (practice.tsx) *)

\* String.prototype.trim
Trim(text) ==
    LET inked == {i \in DOMAIN text : ~IsSpaceChar(text[i])}
    IN  IF inked = {} THEN <<>>
        ELSE SubSeq(text, SetMin(inked), CHOOSE i \in inked : \A j \in inked : j <= i)

\* The arrow function normalize of wordSimilarity
normalize(s) ==
    FilterNonEmpty(SplitOnSpace(Trim(StripPunctuation(toLowerCase(s)))))

RECURSIVE GCD(_, _)
GCD(p, q) == IF q = 0 THEN p ELSE GCD(q, p % q)

\* The Number p / q for integers 0 <= p <= q, q > 0, held as the fraction in
\* lowest terms.  For the counts of words of a line two quotients are the
\* same double exactly when they are the same fraction, and they compare as
\* the fractions do: division rounds to nearest, and two different fractions
\* of such small terms lie much further apart than one rounding.
Quotient(p, q) == [num |-> p \div GCD(p, q), den |-> q \div GCD(p, q)]

\* The literals 1 and 0
One == [num |-> 1, den |-> 1]

Zero == [num |-> 0, den |-> 1]

\* x > y for two Numbers
Greater(x, y) == x.num * y.den > y.num * x.den

\* A bug: a word of the correct line counted once however often it stands there
wordSimilarityDistinct(spokenText, correctText) ==
    LET sw == normalize(spokenText)
        cw == normalize(correctText)
    IN  IF Len(cw) = 0 THEN One
        ELSE IF Len(sw) = 0 THEN Zero
        ELSE Quotient(Cardinality(Range(cw) \cap Range(sw)), Len(cw))

\* A bug: a word of the correct line counted only when it was said at the
\* same place
wordSimilarityInPlace(spokenText, correctText) ==
    LET sw == normalize(spokenText)
        cw == normalize(correctText)
    IN  IF Len(cw) = 0 THEN One
        ELSE IF Len(sw) = 0 THEN Zero
        ELSE Quotient(Cardinality({i \in DOMAIN cw : i \in DOMAIN sw /\ sw[i] = cw[i]}),
                      Len(cw))

\* A bug: the count divided by the length of the longer text
wordSimilaritySymmetric(spokenText, correctText) ==
    LET sw == normalize(spokenText)
        cw == normalize(correctText)
        spokenSet == Range(sw)
    IN  IF Len(cw) = 0 THEN One
        ELSE IF Len(sw) = 0 THEN Zero
        ELSE Quotient(Len(SelectSeq(cw, LAMBDA w : w \in spokenSet)),
                      IF Len(sw) > Len(cw) THEN Len(sw) ELSE Len(cw))

wordSimilarity(spokenText, correctText) ==
    LET sw == normalize(spokenText)
        cw == normalize(correctText)
        spokenSet == Range(sw)
    IN  IF Len(cw) = 0 THEN One
        ELSE IF Len(sw) = 0 THEN Zero
        ELSE Quotient(Len(SelectSeq(cw, LAMBDA w : w \in spokenSet)), Len(cw))

\* handleEvaluate's directSimilarity, for the text said and the current line
PreScreen ==
    /\ similarity = NoResult
    /\ similarity' = wordSimilarity(spoken.value, correct.value)
    /\ UNCHANGED <<spoken, correct, spokenWords, correctWords, ops, result,
                   previous, pc, alternatives, best, chunks,
                   calling, screen>>

\* The pre-screen and the local evaluation of the same attempt, in any order
NextScreen == Evaluate \/ PreScreen

SpecScreen == Init /\ [][NextScreen]_vars

\* A bug: a later candidate taken when it is as good as the best so far
KeepBetterOrEqual(kept, alt, correctText) ==
    IF ~Greater(wordSimilarity(kept, correctText), wordSimilarity(alt, correctText))
    THEN alt ELSE kept

\* The callback of reduce in pickBestAlternative
KeepBetter(kept, alt, correctText) ==
    IF Greater(wordSimilarity(alt, correctText), wordSimilarity(kept, correctText))
    THEN alt ELSE kept

\* alternatives.reduce(callback) without an initial value, from element k on
RECURSIVE Reduce(_, _, _, _)
Reduce(alts, k, kept, correctText) ==
    IF k > Len(alts) THEN kept
    ELSE Reduce(alts, k + 1, KeepBetter(kept, alts[k], correctText), correctText)

\* alternatives[0] ?? '' of a list of at most one element, else the reduce
pickBestAlternative(alts, correctText) ==
    IF Len(alts) <= 1
    THEN (IF Len(alts) = 1 THEN alts[1] ELSE <<>>)
    ELSE Reduce(alts, 2, alts[1], correctText)

\* What the recognizer may offer for one utterance
Candidates ==
    { <<"b","e">>, <<"a","m"," ","b","e">>, <<"b","e"," ","a","m">>, <<"B","e",","," ","I","'","m">>, <<>> }

\* The lines the utterance is compared with
PickLines == { <<"b","e"," ","a","m">>, <<"I","'","m"," ","b","e">>, <<"-","-">> }

MaxAlternatives == 3

\* The example of the documentation
ExampleAlternatives == << <<"I"," ","c","a","n"," ","n","o","t"," ","b","e","l","i","e","v","e"," ","i","t">>,
                         <<"I"," ","c","a","n","n","o","t"," ","b","e","l","i","e","v","e"," ","i","t">> >>

ExampleLine == <<"I"," ","c","a","n","n","o","t"," ","b","e","l","i","e","v","e"," ","i","t">>

Pick ==
    /\ pc = "ready"
    /\ best' = pickBestAlternative(alternatives, correct.value)
    /\ pc' = "done"
    /\ UNCHANGED <<spoken, correct, spokenWords, correctWords, ops, result,
                   previous, similarity, alternatives, chunks,
                   calling, screen>>

InitPick ==
    /\ \/ /\ alternatives \in UNION {[1..k -> Candidates] : k \in 0..MaxAlternatives}
          /\ correct \in {JSString(t) : t \in PickLines}
       \/ /\ alternatives = ExampleAlternatives
          /\ correct = JSString(ExampleLine)
    /\ spoken = JSString(<<>>)
    /\ spokenWords = <<>>
    /\ correctWords = <<>>
    /\ ops = <<>>
    /\ result = NoResult
    /\ previous = NoResult
    /\ pc = "ready"
    /\ similarity = NoResult
    /\ best = <<>>
    /\ chunks = <<>>
    /\ NoCalls
    /\ Unmounted

NextPick == Pick

SpecPick == InitPick /\ [][NextPick]_vars

-----------------------------------------------------------------------------
(* The chunker: splitIntoChunks *)

\* [.!?]
SentenceEnders == {".", "!", "?"}

\* [A-Z"']
SentenceOpeners == UpperChars \cup {"\"", "'"}

\* The first position at or after i whose character is not in chars, or the
\* position after the text
RunEnd(text, i, chars) ==
    IF \A k \in i..Len(text) : text[k] \in chars THEN Len(text) + 1
    ELSE SetMin({k \in i..Len(text) : text[k] \notin chars})

WhiteSpace == {" ", "\t", "\n", "\r"}

\* The match of /([.!?]+)\s+(?=[A-Z"'])/ that starts at position q: the run of
\* enders, all the whitespace after it, and a look at the character after
SentenceBreakAt(text, q) ==
    LET r == RunEnd(text, q, SentenceEnders)
        w == RunEnd(text, r, WhiteSpace)
    IN  [matched |-> r > q /\ w > r /\ w <= Len(text) /\ text[w] \in SentenceOpeners,
         capture |-> SubSeq(text, q, r - 1),
         end     |-> w]

\* text.split(/([.!?]+)\s+(?=[A-Z"'])/), with p the start of the piece being
\* read and q the position tried: the pieces, each but the last followed by
\* the capture of the match that ends it
RECURSIVE SplitSentences(_, _, _, _)
SplitSentences(text, p, q, raw) ==
    IF q > Len(text) THEN Append(raw, SubSeq(text, p, Len(text)))
    ELSE IF SentenceBreakAt(text, q).matched
    THEN SplitSentences(text, SentenceBreakAt(text, q).end, SentenceBreakAt(text, q).end,
                        raw \o <<SubSeq(text, p, q - 1), SentenceBreakAt(text, q).capture>>)
    ELSE SplitSentences(text, p, q + 1, raw)

\* A bug: the captured punctuation not put back
PiecesWithoutCapture(raw) ==
    FilterNonEmpty([k \in 1..((Len(raw) + 1) \div 2) |-> Trim(raw[2 * k - 1])])

\* The loop over raw two by two: a piece and the capture after it, trimmed,
\* pushed when not empty
Pieces(raw) ==
    FilterNonEmpty([k \in 1..((Len(raw) + 1) \div 2) |->
                       Trim(raw[2 * k - 1]
                            \o (IF 2 * k <= Len(raw) THEN raw[2 * k] ELSE <<>>))])

\* text.trim().split(/\s+/).length
WordCount(text) == Len(SplitOnSpace(Trim(text)))

\* text.split(/[,;]\s*/), with p and q as in SplitSentences
RECURSIVE SplitClauses(_, _, _, _)
SplitClauses(text, p, q, raw) ==
    IF q > Len(text) THEN Append(raw, SubSeq(text, p, Len(text)))
    ELSE IF text[q] \in {",", ";"}
    THEN SplitClauses(text, RunEnd(text, q + 1, WhiteSpace), RunEnd(text, q + 1, WhiteSpace),
                      Append(raw, SubSeq(text, p, q - 1)))
    ELSE SplitClauses(text, p, q + 1, raw)

\* .map(s => s.trim()).filter(Boolean)
Fallback(text) ==
    LET raw == SplitClauses(text, 1, 1, <<>>)
    IN  FilterNonEmpty([k \in DOMAIN raw |-> Trim(raw[k])])

WordsForFallback == 15

\* A bug: the fallback taken whatever the length of the line
splitIntoChunksAnyLength(text) ==
    LET pieces == Pieces(SplitSentences(text, 1, 1, <<>>))
    IN  IF Len(pieces) >= 2 THEN pieces
        ELSE IF Len(Fallback(text)) >= 2 THEN Fallback(text)
        ELSE <<text>>

splitIntoChunks(text) ==
    LET pieces == Pieces(SplitSentences(text, 1, 1, <<>>))
    IN  IF Len(pieces) >= 2 THEN pieces
        ELSE IF WordCount(text) >= WordsForFallback /\ Len(Fallback(text)) >= 2
        THEN Fallback(text)
        ELSE <<text>>

isChunkable(text) == Len(splitIntoChunks(text)) >= 2

WordsForTip == 15

\* A bug: only the end of the text looked at for a sentence ender
needsPunctuationTipAtEnd(text) ==
    WordCount(text) >= WordsForTip
        /\ (text = <<>> \/ text[Len(text)] \notin SentenceEnders)

needsPunctuationTip(text) ==
    LET wordCount         == WordCount(text)
        hasSentenceBreaks == \E k \in DOMAIN text : text[k] \in SentenceEnders
    IN  wordCount >= WordsForTip /\ ~hasSentenceBreaks

JSBoolean(b) == [type |-> "boolean", value |-> b]

\* What a line of a script is written with
ChunkPieces ==
    { <<"G","o">>, <<"n","o","w">>, <<".">>, <<"?","!">>, <<" ">>, <<"'","t","i","s">>, <<"\"">>, <<"a",",">> }

MaxPieces == 4

RECURSIVE Concat(_)
Concat(parts) ==
    IF parts = <<>> THEN <<>> ELSE parts[1] \o Concat(SubSeq(parts, 2, Len(parts)))

\* The example of the documentation; lines are also drawn that continue it
ExampleSentences == <<"G","o"," ","n","o","w","."," ","D","o","n","'","t"," ","l","o","o","k"," ","b","a","c","k",".">>

\* The words of a long line, and what may stand between two of them or after
\* the last
LineLetters == <<"a","b","c","d","e","f","g","h","i","j","k","l","m","n","o","p","q","r">>

Separators ==
    { <<" ">>, <<",", " ">>, <<";">>, <<".">>, <<".", " ">>, <<"!", " ", "\"">> }

MaxLongWords == 16

\* The first n words, with s after the i-th, t after the j-th and a space
\* after every other but the last
LongLine(n, i, s, j, t) ==
    Concat([k \in 1..n |->
               <<LineLetters[k]>>
                   \o (IF k = i THEN s ELSE IF k = j THEN t
                       ELSE IF k = n THEN <<>> ELSE <<" ">>)])

LongLines ==
    {LongLine(n, i, s, j, t) :
        n \in {MaxLongWords - 2, MaxLongWords - 1, MaxLongWords},
        i \in {1, 7, MaxLongWords - 2}, j \in {MaxLongWords - 1, MaxLongWords},
        s \in Separators, t \in Separators}

\* The example of the documentation for needsPunctuationTip
ExampleUnpunctuated == LongLine(15, 0, <<>>, 0, <<>>)

Split ==
    /\ pc = "ready"
    /\ chunks' = splitIntoChunks(correct.value)
    /\ pc' = "done"
    /\ UNCHANGED <<spoken, correct, spokenWords, correctWords, ops, result,
                   previous, similarity, alternatives, best,
                   calling, screen>>

\* One call of isChunkable
Chunkable ==
    /\ pc = "ready"
    /\ result' = JSBoolean(isChunkable(correct.value))
    /\ pc' = "chunkable"
    /\ UNCHANGED <<spoken, correct, spokenWords, correctWords, ops, chunks,
                   previous, similarity, alternatives, best,
                   calling, screen>>

\* One call of needsPunctuationTip
PunctuationTip ==
    /\ pc = "ready"
    /\ result' = JSBoolean(needsPunctuationTip(correct.value))
    /\ pc' = "tip"
    /\ UNCHANGED <<spoken, correct, spokenWords, correctWords, ops, chunks,
                   previous, similarity, alternatives, best,
                   calling, screen>>

InitChunks ==
    /\ correct \in {JSString(Concat(parts)) :
                        parts \in UNION {[1..k -> ChunkPieces] : k \in 0..MaxPieces}}
                   \cup {JSString(t) : t \in LongLines}
                   \cup {JSString(ExampleUnpunctuated),
                         JSString(ExampleUnpunctuated \o <<".">>)}
                   \cup {JSString(ExampleSentences \o Concat(parts)) :
                        parts \in UNION {[1..k -> ChunkPieces] : k \in 0..(MaxPieces - 1)}}
    /\ spoken = JSString(<<>>)
    /\ alternatives = <<>>
    /\ spokenWords = <<>>
    /\ correctWords = <<>>
    /\ ops = <<>>
    /\ result = NoResult
    /\ previous = NoResult
    /\ pc = "ready"
    /\ similarity = NoResult
    /\ best = <<>>
    /\ chunks = <<>>
    /\ NoCalls
    /\ Unmounted

NextChunks == Split \/ Chunkable \/ PunctuationTip

SpecChunks == InitChunks /\ [][NextChunks]_vars

-----------------------------------------------------------------------------
(* A call of align on two token sequences *)

\* Tokens of one letter
TokenLetters == {"a", "b", "c"}

MaxTokens == 4

\* The token sequences of at most MaxTokens tokens, the empty one among them
TokenSeqs == UNION {[1..k -> {<<l>> : l \in TokenLetters}] : k \in 0..MaxTokens}

Align ==
    /\ pc = "ready"
    /\ ops' = align(spokenWords, correctWords)
    /\ pc' = "done"
    /\ UNCHANGED <<spoken, correct, spokenWords, correctWords, result, previous,
                   helpers, calling, screen>>

InitAlign ==
    /\ spokenWords \in TokenSeqs
    /\ correctWords \in TokenSeqs
    /\ spoken = JSString(JoinWords(spokenWords))
    /\ correct = JSString(JoinWords(correctWords))
    /\ ops = <<>>
    /\ result = NoResult
    /\ previous = NoResult
    /\ pc = "ready"
    /\ similarity = NoResult
    /\ alternatives = <<>>
    /\ best = <<>>
    /\ chunks = <<>>
    /\ NoCalls
    /\ Unmounted

NextAlign == Align

SpecAlign == InitAlign /\ [][NextAlign]_vars

-----------------------------------------------------------------------------
(* Texts that write a contraction and texts that write it out *)

UpperChar(c) ==
    IF c \in Range(LowerLetters)
    THEN UpperLetters[CHOOSE i \in DOMAIN LowerLetters : LowerLetters[i] = c]
    ELSE c

\* text as written in lower case, with a capital first, or in capitals
InCase(text, case) ==
    [i \in DOMAIN text |->
        IF case = "upper" \/ (case = "capital" /\ i = 1)
        THEN UpperChar(text[i]) ELSE text[i]]

MaxContractions == 2

\* A sentence around k entries of the table from entry i on, each written as
\* its contraction (form 1) or as its expansion (form 2)
Sentence(i, k, form, case) ==
    InCase(JoinWords([n \in 1..k |-> CONTRACTIONS[i + n - 1][form]])
               \o <<",", " ", "b", "e", ".">>, case)

\* The example of the documentation, contracted and written out
ExampleContracted ==
    <<"I"," ","c","a","n","'","t"," ","b","e","l","i","e","v","e"," ",
      "y","o","u","'","r","e"," ","l","e","a","v","i","n","g">>

ExampleExpanded ==
    <<"I"," ","c","a","n","n","o","t"," ","b","e","l","i","e","v","e"," ",
      "y","o","u"," ","a","r","e"," ","l","e","a","v","i","n","g">>

\* One text writes the contractions, the other writes them out, each in a
\* letter case of its own
InitContraction ==
    /\ \/ \E k \in 1..MaxContractions : \E i \in 1..(Len(CONTRACTIONS) - k + 1) :
          \E c1, c2 \in {"lower", "capital", "upper"} : \E forms \in {<<1, 2>>, <<2, 1>>} :
             /\ spoken = JSString(Sentence(i, k, forms[1], c1))
             /\ correct = JSString(Sentence(i, k, forms[2], c2))
       \/ \E texts \in {<<ExampleContracted, ExampleExpanded>>,
                         <<ExampleExpanded, ExampleContracted>>} :
             /\ spoken = JSString(texts[1])
             /\ correct = JSString(texts[2])
    /\ Fresh

SpecContraction == InitContraction /\ [][Next]_vars

-----------------------------------------------------------------------------
(* A call of tokenize on any short string *)

\* A letter of each case, a digit, the underscore, a mark of punctuation,
\* whitespace, and characters outside ASCII
TokenizeChars ==
    {"a", "B", "7", "_", "!", " ", NoBreakSpace, CapitalEAcute}

MaxChars == 4

\* Longer texts: contractions in either case next to word characters, marks
\* and whitespace of every kind
TokenizeExamples ==
    { <<"C","a","n","'","t","!"," ","_","9">>,
      <<"I","'","M","\t","\n","i","t","'","s",".">>,
      <<"w","o","n","'","t","_"," ","x","'","y">>,
      <<"\r","\n"," ","\t">>,
      <<"?","!",".",",",";","'","\"","-">>,
      <<"'","'"," ","-"," ",".",".",".">>,
      ExampleContracted }

Tokenize ==
    /\ pc = "ready"
    /\ spokenWords' = tokenize(spoken.value)
    /\ pc' = "tokenized"
    /\ UNCHANGED <<spoken, correct, correctWords, ops, result, previous,
                   helpers, calling, screen>>

InitTokenize ==
    /\ spoken \in {JSString(t) :
                      t \in UNION {[1..n -> TokenizeChars] : n \in 0..MaxChars}
                               \cup TokenizeExamples}
    /\ correct = JSString(<<>>)
    /\ Fresh

NextTokenize == Tokenize

SpecTokenize == InitTokenize /\ [][NextTokenize]_vars

-----------------------------------------------------------------------------
(* Calls of the core functions, in any order, on the one table of            *)
(* contractions of the module.  The only state a call can leave behind is    *)
(* the lastIndex of a RegExp of the table: each has the g flag.              *)

MaxCalls == 3

SetMax(S) == CHOOSE x \in S : \A y \in S : x >= y

\* A bug: the search started at the lastIndex the RegExp was left with, and
\* lastIndex left after the last match, as a loop of pattern.exec(result)
\* that stops at the last match does
replaceFromLastIndex(text, k, li) ==
    LET from    == Min(li, Len(text))
        matches == MatchesFrom(text, from + 1, CONTRACTIONS[k][1])
    IN  [value |-> SubSeq(text, 1, from)
                       \o ReplaceAll(text, from + 1,
                                     CONTRACTIONS[k][1], CONTRACTIONS[k][2]),
         lastIndex |-> IF matches = {} THEN 0
                       ELSE SetMax(matches) + Len(CONTRACTIONS[k][1]) - 1]

\* result.replace(pattern, expansion) with the k-th RegExp of the table, left
\* with lastIndex li by the calls before: for a RegExp with the g flag,
\* replace sets lastIndex to 0, calls exec until it finds no match, and the
\* exec that finds none sets lastIndex to 0
replace(text, k, li) ==
    [value |-> ReplaceAll(text, 0 + 1, CONTRACTIONS[k][1], CONTRACTIONS[k][2]),
     lastIndex |-> 0]

\* The loop of expandContractions from the k-th entry on, with the lastIndex
\* of every RegExp (li has one for each entry of the table)
RECURSIVE ApplyContractionsCalled(_, _, _)
ApplyContractionsCalled(text, k, li) ==
    IF k \notin DOMAIN li THEN [value |-> text, lastIndex |-> li]
    ELSE LET r == replace(text, k, li[k])
         IN  ApplyContractionsCalled(r.value, k + 1,
                                     [li EXCEPT ![k] = r.lastIndex])

\* tokenize(text) with the table as the calls before left it: what it
\* returns and how it leaves the table
tokenizeCalled(text, li) ==
    LET r == ApplyContractionsCalled(toLowerCase(text), 1, li)
    IN  [value |-> FilterNonEmpty(SplitOnSpace(StripPunctuation(r.value))),
         lastIndex |-> r.lastIndex]

\* evaluateLineLocally(s, c) with the table as the calls before left it
evaluateLineLocallyCalled(s, c, li) ==
    LET sw == tokenizeCalled(s, li)
        cw == tokenizeCalled(c, sw.lastIndex)
    IN  [value |-> IF EarlyReturn(sw.value, cw.value) # NoResult
                   THEN EarlyReturn(sw.value, cw.value)
                   ELSE Scored(align(sw.value, cw.value), cw.value),
         lastIndex |-> cw.lastIndex]

\* The texts the callers pass: a contraction twice, a contraction once
CallTexts ==
    { <<"C","a","n","'","t"," ","c","a","n","'","t",".">>,
      <<"I","'","m"," ","i","n">> }

\* The token sequences the callers pass to align
CallTokens == { << <<"a">>, <<"b">> >>, << <<"b">> >> }

Called(fn, args, returned) ==
    /\ Len(calls) < MaxCalls
    /\ calls' = Append(calls, [fn |-> fn, args |-> args, returned |-> returned])
    /\ UNCHANGED <<core, helpers, screen>>

CallTokenize ==
    \E text \in CallTexts :
        LET call == tokenizeCalled(text, lastIndex)
        IN  /\ Called("tokenize", <<text>>, call.value)
            /\ lastIndex' = call.lastIndex

CallEvaluateLineLocally ==
    \E s \in CallTexts, c \in CallTexts :
        LET call == evaluateLineLocallyCalled(s, c, lastIndex)
        IN  /\ Called("evaluateLineLocally", <<s, c>>, call.value)
            /\ lastIndex' = call.lastIndex

CallAlign ==
    \E a \in CallTokens, b \in CallTokens :
        /\ a # b
        /\ Called("align", <<a, b>>, align(a, b))
        /\ UNCHANGED lastIndex

CallSplitIntoChunks ==
    \E text \in CallTexts :
        /\ Called("splitIntoChunks", <<text>>, splitIntoChunks(text))
        /\ UNCHANGED lastIndex

CallNeedsPunctuationTip ==
    \E text \in CallTexts :
        /\ Called("needsPunctuationTip", <<text>>, needsPunctuationTip(text))
        /\ UNCHANGED lastIndex

InitCalls ==
    /\ spoken = JSString(<<>>)
    /\ correct = JSString(<<>>)
    /\ Fresh

NextCalls ==
    \/ CallTokenize
    \/ CallEvaluateLineLocally
    \/ CallAlign
    \/ CallSplitIntoChunks
    \/ CallNeedsPunctuationTip

SpecCalls == InitCalls /\ [][NextCalls]_vars

-----------------------------------------------------------------------------
(* The practice screen in test mode (practice.tsx): listening, the 'result'  *)
(* and 'end' events of the recognizer, handleEvaluate, the remote evaluators *)
(* it awaits, scene mode and its auto-advance timer.  What only the display   *)
(* reads (transcript, hintText, hintLevel, showLine, coachingQuestion,        *)
(* showSceneConfig, the pulse animation) is left out.  A handler is a function from the state  *)
(* of the screen, a record of its variables, to the state it leaves.          *)

MaxTimeouts == 1

MaxInFlight == 1

MaxAttempts == 1

MaxTranscript == 5

\* The words i to j of LineLetters, a space between two
Said(i, j) ==
    Concat([k \in 1..(j - i + 1) |->
               <<LineLetters[i + k - 1]>> \o (IF k = j - i + 1 THEN <<>> ELSE <<" ">>)])

\* allMyLinesRef: the lines of the selected character, line id k at place k
AllMyLines == << Said(1, 10), Said(1, 6) >>

\* What one 'result' event may carry: the transcripts of event.results
Utterances ==
    { <<Said(1, 9)>>, <<Said(1, 3)>>, <<Said(4, 5), Said(4, 4)>> }

\* What a remote evaluator may answer
RemoteResults ==
    { [accurate |-> TRUE, score |-> 90, feedback |-> "Good"],
      [accurate |-> FALSE, score |-> 50, feedback |-> "Partial"] }

\* The state of the screen
Screen ==
    [script |-> script, settings |-> settings, progress |-> progress,
     myLines |-> myLines, currentIndex |-> currentIndex,
     practiceState |-> practiceState,
     feedback |-> feedback, sceneConfig |-> sceneConfig,
     sceneModeResults |-> sceneModeResults, autoAdvancing |-> autoAdvancing,
     interimTranscript |-> interimTranscript, finalTranscript |-> finalTranscript,
     hasFinal |-> hasFinal, allAlternatives |-> allAlternatives,
     calledForLine |-> calledForLine,
     accumulatedTranscript |-> accumulatedTranscript,
     autoStopTimer |-> autoStopTimer, autoAdvanceTimer |-> autoAdvanceTimer,
     timeouts |-> timeouts, recognizer |-> recognizer, inFlight |-> inFlight,
     alert |-> alert, event |-> event]

\* The bounds of the model: a timeout id is left free, and the remote calls
\* awaited, the attempts at a line and the text accumulated are capped
WithinBounds(S) ==
    /\ S.timeouts[MaxTimeouts + 1] = "none"
    /\ Len(S.inFlight) <= MaxInFlight
    /\ \A id \in DOMAIN S.progress : S.progress[id].attempts <= MaxAttempts
    /\ Len(S.accumulatedTranscript) <= MaxTranscript

\* The handler leaves the screen in state S
Becomes(S) ==
    /\ WithinBounds(S)
    /\ script' = S.script
    /\ settings' = S.settings
    /\ progress' = S.progress
    /\ myLines' = S.myLines
    /\ currentIndex' = S.currentIndex
    /\ practiceState' = S.practiceState
    /\ feedback' = S.feedback
    /\ sceneConfig' = S.sceneConfig
    /\ sceneModeResults' = S.sceneModeResults
    /\ autoAdvancing' = S.autoAdvancing
    /\ interimTranscript' = S.interimTranscript
    /\ finalTranscript' = S.finalTranscript
    /\ hasFinal' = S.hasFinal
    /\ allAlternatives' = S.allAlternatives
    /\ calledForLine' = S.calledForLine
    /\ accumulatedTranscript' = S.accumulatedTranscript
    /\ autoStopTimer' = S.autoStopTimer
    /\ autoAdvanceTimer' = S.autoAdvanceTimer
    /\ timeouts' = S.timeouts
    /\ recognizer' = S.recognizer
    /\ inFlight' = S.inFlight
    /\ alert' = S.alert
    /\ event' = S.event
    /\ UNCHANGED <<core, helpers, calling>>

\* What is recorded of a handler when it starts: it has raised no Alert and
\* has not called handleEvaluate
Entered(S, handler) ==
    [S EXCEPT !.alert = <<>>,
              !.event = [phase |-> "none", evaluated |-> JSUndefined, line |-> 0,
                         accumulated |-> <<>>, segment |-> <<>>,
                         alternatives |-> <<>>, remote |-> "none",
                         fresh |-> S.event.fresh]]

\* currentLineRef.current: the id of myLines[currentIndex], or 0 for null
CurrentLine(S) ==
    IF S.currentIndex + 1 \in DOMAIN S.myLines THEN S.myLines[S.currentIndex + 1] ELSE 0

\* setTimeout: the id of the new timeout
FreeId(S) == SetMin({k \in DOMAIN S.timeouts : S.timeouts[k] = "none"})

\* if (ref.current) { clearTimeout(ref.current); ... }
clearTimeout(S, id) == IF id = 0 THEN S ELSE [S EXCEPT !.timeouts[id] = "none"]

\* ExpoSpeechRecognitionModule.stop(): a recognizer that runs will end
Stopped(S) == IF S.recognizer = "on" THEN [S EXCEPT !.recognizer = "stopping"] ELSE S

\* x * y for two Numbers
Times(x, y) == Quotient(x.num * y.num, x.den * y.den)

\* x >= p / q for a Number x and the literal written p / q.  The literals 0.9
\* and 0.82 are no fractions of word counts but for lines of 10 and of 50
\* words or more; 9 / 10 rounds to the literal 0.9.
AtLeast(x, p, q) == x.num * q >= p * x.den

Perfect == [accurate |-> TRUE, score |-> 100, feedback |-> "Perfect!"]

NailedIt == [accurate |-> TRUE, score |-> 96, feedback |-> "Nailed it!"]

CountsAsCorrect == 90

MasteredAfter == 3

\* updateLineProgress(lineId, {attempts, correctAttempts, mastered})
updateLineProgress(S, lineId, score) ==
    LET now     == S.progress[lineId]
        correct_ == now.correctAttempts + (IF score >= CountsAsCorrect THEN 1 ELSE 0)
    IN  [S EXCEPT !.progress[lineId] =
            [now EXCEPT !.attempts = now.attempts + 1,
                        !.correctAttempts = correct_,
                        !.mastered = correct_ >= MasteredAfter]]

\* handleEvaluate from setFeedback(result) on: the feedback state, the line
\* progress, and in scene mode the result of the line and the timer that
\* moves on
AfterResult(S, res) ==
    LET line == CurrentLine(S)
        S1   == [updateLineProgress(S, line, res.score)
                    EXCEPT !.feedback = res,
                           !.practiceState = "feedback",
                           !.event.fresh = S.event.fresh /\ S.currentIndex # 0]
        cfg  == S.sceneConfig
    IN  IF cfg = JSNull \/ line = 0 THEN S1
        ELSE LET S2 == [S1 EXCEPT !.sceneModeResults =
                                      Append(@, [lineId |-> line, score |-> res.score])]
             IN  IF cfg.type = "flow" \/ res.score >= cfg.threshold
                 THEN [S2 EXCEPT !.autoAdvancing = TRUE,
                                 !.autoAdvanceTimer = FreeId(S2),
                                 !.timeouts[FreeId(S2)] = "advance"]
                 ELSE S2

\* result = await evaluator(...): the call is made and the handler waits
Awaiting(S, evaluator, spokenText, correctText) ==
    [S EXCEPT !.inFlight = Append(@, [evaluator |-> evaluator,
                                      spokenText |-> spokenText,
                                      correct |-> correctText]),
              !.event.remote = evaluator]

\* A bug: the attempt given up without a word to the user
SetupRequiredSilently(S) == [S EXCEPT !.practiceState = "cue"]

\* The Alert of a screen with neither an API key nor a script token
SetupRequired(S) ==
    [S EXCEPT !.alert = "Setup Required", !.practiceState = "cue"]

\* A bug: the pre-screen passed from 0.95 on
ConfidentFromNinetyFive(direct, practiceSimilarity) ==
    AtLeast(direct, 19, 20) \/ AtLeast(practiceSimilarity, 41, 50)

\* directSimilarity >= 0.9 || practiceSimilarity >= 0.82
Confident(direct, practiceSimilarity) ==
    AtLeast(direct, 9, 10) \/ AtLeast(practiceSimilarity, 41, 50)

\* handleEvaluate(spokenText) up to its first await, or to its end when it
\* awaits nothing
handleEvaluate(S, spokenText) ==
    LET line == CurrentLine(S)
    IN  IF line = 0 THEN S
        ELSE
        LET text        == AllMyLines[line]
            practiceRef == S.progress[line].practiceTranscript
            direct      == wordSimilarity(spokenText, text)
            practiceSimilarity ==
                IF practiceRef.type = "string" /\ practiceRef.value # <<>>
                THEN Times(wordSimilarity(spokenText, practiceRef.value),
                           wordSimilarity(practiceRef.value, text))
                ELSE Zero
            S1 == [S EXCEPT !.practiceState = "evaluating",
                            !.event.phase = "called",
                            !.event.evaluated = JSString(spokenText),
                            !.event.line = line]
        IN  IF AtLeast(direct, 1, 1) THEN AfterResult(S1, Perfect)
            ELSE IF Confident(direct, practiceSimilarity) THEN AfterResult(S1, NailedIt)
            ELSE IF S.settings.anthropicApiKey # <<>>
            THEN Awaiting(S1, "evaluateLine", spokenText, text)
            ELSE IF S.script.scriptToken.type = "string" /\ S.script.scriptToken.value # <<>>
            THEN Awaiting(S1, "evaluateLineViaBackend", spokenText, text)
            ELSE SetupRequired(S1)

\* a + ' ' + b
Spaced(a, b) == a \o <<" ">> \o b

\* The listener of the 'result' event
onResult(S, results, isFinal) ==
    LET text    == IF Len(results) > 0 THEN results[1] ELSE <<>>
        alts    == FilterNonEmpty(results)
        S1      == [Entered(S, "result")
                       EXCEPT !.interimTranscript = text,
                              !.allAlternatives = IF Len(alts) > 0 THEN alts ELSE @]
    IN  IF isFinal THEN [S1 EXCEPT !.hasFinal = TRUE, !.finalTranscript = text]
        ELSE S1

\* const textToEval = accumulatedTranscriptRef.current ? fullText : ...;
\* S is the state after accumulatedTranscriptRef.current = ''
TextToEval(S, fullText) ==
    IF S.accumulatedTranscript # <<>> THEN fullText
    ELSE IF Len(S.allAlternatives) > 1 /\ CurrentLine(S) # 0
    THEN pickBestAlternative(S.allAlternatives, AllMyLines[CurrentLine(S)])
    ELSE fullText

\* The listener of the 'end' event; the recognizer has ended
onEnd(S) ==
    LET S0 == [Entered(S, "end") EXCEPT !.recognizer = "off"]
        segmentText == IF S.hasFinal THEN S.finalTranscript ELSE S.interimTranscript
    IN  IF S.practiceState # "listening" THEN S0
        ELSE IF S.calledForLine
        THEN [clearTimeout(S0, S.autoStopTimer)
                 EXCEPT !.calledForLine = FALSE,
                        !.accumulatedTranscript = <<>>,
                        !.autoStopTimer = 0,
                        !.practiceState = "cue"]
        ELSE IF S.autoStopTimer # 0 /\ segmentText # <<>>
        THEN [S0 EXCEPT !.accumulatedTranscript = Trim(Spaced(@, segmentText)),
                        !.interimTranscript = <<>>,
                        !.finalTranscript = <<>>,
                        !.hasFinal = FALSE,
                        !.allAlternatives = <<>>,
                        !.recognizer = "on"]
        ELSE
        LET fullText == IF segmentText # <<>>
                        THEN Trim(Spaced(S.accumulatedTranscript, segmentText))
                        ELSE S.accumulatedTranscript
            S1 == [clearTimeout(S0, S.autoStopTimer)
                      EXCEPT !.autoStopTimer = 0,
                             !.accumulatedTranscript = <<>>,
                             !.event.accumulated = S.accumulatedTranscript,
                             !.event.segment = segmentText,
                             !.event.alternatives = S.allAlternatives]
            textToEval == TextToEval(S1, fullText)
        IN  IF fullText # <<>>
            THEN handleEvaluate(S1, textToEval)
            ELSE [S1 EXCEPT !.practiceState = "cue"]

\* startListening('test') with the permission granted
startListening(S) ==
    LET S1 == Entered(S, "startListening")
    IN  [S1 EXCEPT !.interimTranscript = <<>>,
                   !.finalTranscript = <<>>,
                   !.hasFinal = FALSE,
                   !.allAlternatives = <<>>,
                   !.accumulatedTranscript = <<>>,
                   !.practiceState = "listening",
                   !.autoStopTimer = FreeId(S1),
                   !.timeouts[FreeId(S1)] = "stop",
                   !.recognizer = "on"]

stopListening(S) ==
    Stopped([clearTimeout(S, S.autoStopTimer) EXCEPT !.autoStopTimer = 0])

\* if (timer) { clearTimeout(timer); timer = null } ... of advanceToNextLine
\* and of handleNext
MovedOn(S) ==
    LET S1 == [clearTimeout(S, S.autoAdvanceTimer)
                  EXCEPT !.autoAdvanceTimer = 0, !.autoAdvancing = FALSE]
    IN  IF S.currentIndex + 1 >= Len(S.myLines)
        THEN [S1 EXCEPT !.practiceState = "complete"]
        ELSE [S1 EXCEPT !.currentIndex = S.currentIndex + 1,
                        !.feedback = JSNull,
                        !.practiceState = "cue"]

advanceToNextLine(S) == MovedOn(S)

\* The first lineCount lines, or all of them for null
ActiveLines(lineCount) ==
    IF lineCount = 0 THEN [k \in DOMAIN AllMyLines |-> k]
    ELSE [k \in 1..lineCount |-> k]

\* What the three handlers that start a run do to the lines and the place
RunOf(S, lines) ==
    [S EXCEPT !.sceneModeResults = <<>>,
              !.myLines = lines,
              !.currentIndex = 0,
              !.feedback = JSNull,
              !.practiceState = "cue",
              !.event.fresh = TRUE]

SceneThreshold == 80

handleStartSceneMode(S, configType, configLineCount) ==
    RunOf([Entered(S, "handleStartSceneMode")
              EXCEPT !.sceneConfig = [type |-> configType,
                                      threshold |-> SceneThreshold,
                                      lineCount |-> configLineCount]],
          ActiveLines(configLineCount))

handleRunSceneAgain(S) ==
    IF S.sceneConfig = JSNull THEN S
    ELSE RunOf(Entered(S, "handleRunSceneAgain"), ActiveLines(S.sceneConfig.lineCount))

\* The lines with a result below the threshold, in the order of allMyLinesRef
WeakLines(S) ==
    LET weakLineIds == {S.sceneModeResults[k].lineId :
                           k \in {i \in DOMAIN S.sceneModeResults :
                                     S.sceneModeResults[i].score < S.sceneConfig.threshold}}
    IN  SelectSeq([k \in DOMAIN AllMyLines |-> k], LAMBDA id : id \in weakLineIds)

handlePracticeWeakLines(S) ==
    IF S.sceneConfig = JSNull THEN S
    ELSE IF Len(WeakLines(S)) = 0 THEN S
    ELSE RunOf(Entered(S, "handlePracticeWeakLines"), WeakLines(S))

-----------------------------------------------------------------------------
(* The events of the practice screen *)

\* The user taps the microphone of the cue state; the permission is granted
\* or it is not
StartListening ==
    /\ practiceState = "cue"
    /\ \/ Becomes(startListening(Screen))
       \/ Becomes([Entered(Screen, "startListening")
                      EXCEPT !.alert = "Microphone Required"])

\* The recognizer delivers a result
Result ==
    /\ recognizer \in {"on", "stopping"}
    /\ \E results \in Utterances : \E isFinal \in BOOLEAN :
           Becomes(onResult(Screen, results, isFinal))

\* The recognizer ends: it was stopped, or it heard a silence
End ==
    /\ recognizer \in {"on", "stopping"}
    /\ Becomes(onEnd(Screen))

\* The max-stop timer of startListening fires
AutoStop ==
    \E id \in DOMAIN timeouts :
        /\ timeouts[id] = "stop"
        /\ Becomes(Stopped([Entered(Screen, "autoStop")
                               EXCEPT !.timeouts[id] = "none",
                                      !.autoStopTimer = 0]))

\* The user taps stop
StopListening ==
    /\ practiceState = "listening"
    /\ Becomes(stopListening(Entered(Screen, "stopListening")))

\* The user calls for the line while listening
CallForLine ==
    /\ practiceState = "listening"
    /\ Becomes(stopListening([Entered(Screen, "handleCallForLine")
                                 EXCEPT !.calledForLine = TRUE]))

\* A remote evaluator answers and handleEvaluate goes on
RemoteReturns ==
    \E k \in DOMAIN inFlight : \E res \in RemoteResults :
        Becomes(AfterResult(
            [Entered(Screen, "handleEvaluate")
                EXCEPT !.inFlight = SubSeq(@, 1, k - 1) \o SubSeq(@, k + 1, Len(@)),
                       !.event.phase = "resumed",
                       !.event.evaluated = JSString(inFlight[k].spokenText),
                       !.event.line = CurrentLine(Screen),
                       !.event.remote = inFlight[k].evaluator],
            res))

\* A remote evaluator fails and handleEvaluate catches it
RemoteThrows ==
    \E k \in DOMAIN inFlight :
        Becomes([Entered(Screen, "handleEvaluate")
                    EXCEPT !.inFlight = SubSeq(@, 1, k - 1) \o SubSeq(@, k + 1, Len(@)),
                           !.event.phase = "resumed",
                           !.event.remote = inFlight[k].evaluator,
                           !.alert = "Error",
                           !.practiceState = "cue"])

\* The timer of handleEvaluate fires and runs advanceToNextLine
AutoAdvance ==
    \E id \in DOMAIN timeouts :
        /\ timeouts[id] = "advance"
        /\ Becomes(advanceToNextLine(
               [Entered(Screen, "advanceToNextLine")
                   EXCEPT !.timeouts[id] = "none",
                          !.autoAdvanceTimer = IF @ = id THEN 0 ELSE @]))

\* The user taps Next Line or Skip
HandleNext ==
    /\ practiceState = "feedback"
    /\ Becomes([MovedOn(Entered(Screen, "handleNext")) EXCEPT !.event.fresh = FALSE])

\* The user taps Try Again, which a drill shows below the threshold and the
\* screen shows outside scene mode
TryAgain ==
    /\ practiceState = "feedback"
    /\ \/ sceneConfig = JSNull
       \/ /\ sceneConfig # JSNull
          /\ sceneConfig.type = "drill"
          /\ feedback # JSNull
          /\ feedback.score < sceneConfig.threshold
    /\ Becomes([Entered(Screen, "tryAgain")
                   EXCEPT !.feedback = JSNull,
                          !.practiceState = "cue"])

\* The user taps Start in the scene mode sheet, which the header opens in
\* every state but complete
HandleStartSceneMode ==
    /\ practiceState # "complete"
    /\ \E configType \in {"flow", "drill"} : \E configLineCount \in {0} :
           Becomes(handleStartSceneMode(Screen, configType, configLineCount))

\* The user taps Run Again on the review of a scene mode run
HandleRunSceneAgain ==
    /\ practiceState = "complete"
    /\ sceneConfig # JSNull
    /\ Becomes(handleRunSceneAgain(Screen))

\* The user taps Practice Weak Lines, shown when there are any
HandlePracticeWeakLines ==
    /\ practiceState = "complete"
    /\ sceneConfig # JSNull
    /\ Len(WeakLines(Screen)) > 0
    /\ Becomes(handlePracticeWeakLines(Screen))

\* The user taps Practice Again on the screen of a scene completed
PracticeAgain ==
    /\ practiceState = "complete"
    /\ sceneConfig = JSNull
    /\ Becomes([Entered(Screen, "practiceAgain")
                   EXCEPT !.currentIndex = 0,
                          !.feedback = JSNull,
                          !.practiceState = "cue"])

\* What the storage may hold when the screen loads: an API key, a script
\* token or neither, and a practice transcript of the lines or none
Setups ==
    { [anthropicApiKey |-> <<"k">>, scriptToken |-> JSUndefined,
       practiceTranscript |-> JSUndefined],
      [anthropicApiKey |-> <<>>, scriptToken |-> JSString(<<"t">>),
       practiceTranscript |-> JSString(Said(1, 5))],
      [anthropicApiKey |-> <<>>, scriptToken |-> JSUndefined,
       practiceTranscript |-> JSUndefined],
      [anthropicApiKey |-> <<>>, scriptToken |-> JSUndefined,
       practiceTranscript |-> JSString(Said(1, 5))] }

\* The screen once it has loaded a script whose lines are all ready for the
\* test
InitPractice ==
    /\ spoken = JSString(<<>>)
    /\ correct = JSString(<<>>)
    /\ spokenWords = <<>>
    /\ correctWords = <<>>
    /\ ops = <<>>
    /\ result = NoResult
    /\ previous = NoResult
    /\ pc = "ready"
    /\ similarity = NoResult
    /\ alternatives = <<>>
    /\ best = <<>>
    /\ chunks = <<>>
    /\ NoCalls
    /\ \E setup \in Setups :
           /\ script = [scriptToken |-> setup.scriptToken]
           /\ settings = [anthropicApiKey |-> setup.anthropicApiKey]
           /\ progress = [id \in DOMAIN AllMyLines |->
                             [attempts |-> 0, correctAttempts |-> 0, mastered |-> FALSE,
                              practiceTranscript |-> setup.practiceTranscript]]
    /\ myLines = [k \in DOMAIN AllMyLines |-> k]
    /\ currentIndex = 0
    /\ practiceState = "cue"
    /\ feedback = JSNull
    /\ sceneConfig = JSNull
    /\ sceneModeResults = <<>>
    /\ autoAdvancing = FALSE
    /\ interimTranscript = <<>>
    /\ finalTranscript = <<>>
    /\ hasFinal = FALSE
    /\ allAlternatives = <<>>
    /\ calledForLine = FALSE
    /\ accumulatedTranscript = <<>>
    /\ autoStopTimer = 0
    /\ autoAdvanceTimer = 0
    /\ timeouts = [k \in 1..(MaxTimeouts + 1) |-> "none"]
    /\ recognizer = "off"
    /\ inFlight = <<>>
    /\ alert = <<>>
    /\ event = [phase |-> "none", evaluated |-> JSUndefined, line |-> 0,
                accumulated |-> <<>>, segment |-> <<>>, alternatives |-> <<>>,
                remote |-> "none", fresh |-> FALSE]

NextPractice ==
    \/ StartListening
    \/ Result
    \/ End
    \/ AutoStop
    \/ StopListening
    \/ CallForLine
    \/ RemoteReturns
    \/ RemoteThrows
    \/ AutoAdvance
    \/ HandleNext
    \/ TryAgain
    \/ HandleStartSceneMode
    \/ HandleRunSceneAgain
    \/ HandlePracticeWeakLines
    \/ PracticeAgain

SpecPractice == InitPractice /\ [][NextPractice]_vars

-----------------------------------------------------------------------------
(* Properties of evaluateLineLocally *)

HasCorrections == "corrections" \in DOMAIN result

NonMatches(alignment) == SelectSeq(alignment, LAMBDA o : o.type # "match")

\* p / q rounded to the nearest integer, a half going up, in exact arithmetic
ExactRound(p, q) == (2 * p + q) \div (2 * q)

\* C1: for every pair of strings, the score returned is an integer between 0
\* and 100 inclusive.
C1_ScoreInRange == pc = "done" => result.score \in 0..100

\* An aligned pair of texts with a score strictly between the two ends
C1_Witness == pc = "done" /\ ops # <<>> /\ result.score \in 1..99

\* C2: for every pair of strings, the result has accurate = true if and only
\* if its score is >= 80, the two early returns included.
C2_AccurateIffEighty == pc = "done" => (result.accurate <=> result.score >= 80)

\* Three words of four right: the score nearest below 80 short texts can get
C2_Witness ==
    pc = "done" /\ ops # <<>> /\ result.score = 75 /\ result.accurate = FALSE

\* C3: identity: for any nonempty string x, evaluateLineLocally(x, x) returns
\* score 100 and accurate true.
C3_Identity ==
    pc = "done" /\ spoken = correct /\ Len(spoken.value) > 0
        => result.score = 100 /\ result.accurate = TRUE

\* A text of several tokens, contractions among them, compared with itself
C3_Witness ==
    /\ pc = "done" /\ spoken = correct
    /\ Len(correctWords) > Len(SplitOnSpace(correct.value))
    /\ Len(ops) = Len(correctWords)
    /\ result.score = 100

\* C4: whenever the correct line normalizes to zero tokens, the result is
\* exactly {accurate: true, score: 100, feedback: "Nothing to check."}, without
\* corrections, whatever the spoken text; this holds before the empty-spoken
\* return, so two empty inputs also give score 100.
C4_NothingToCheck ==
    pc = "done" /\ Len(correctWords) = 0 => result = NothingToCheck

\* Both texts hold characters and neither holds a token
C4_Witness ==
    /\ pc = "done" /\ Len(correctWords) = 0 /\ Len(spokenWords) = 0
    /\ Len(correct.value) > 0 /\ Len(spoken.value) > 0
    /\ result = NothingToCheck

\* C5: whenever the correct line normalizes to at least one token and the
\* spoken text to none, the result is exactly {accurate: false, score: 0,
\* feedback: "No speech detected."}, without corrections, and nothing is raised.
C5_NoSpeechDetected ==
    pc = "done" /\ Len(correctWords) >= 1 /\ Len(spokenWords) = 0
        => result = NoSpeechDetected

\* A spoken text of punctuation only against a line of words
C5_Witness ==
    /\ pc = "done" /\ Len(correctWords) >= 1 /\ Len(spokenWords) = 0
    /\ Len(spoken.value) > 0
    /\ result = NoSpeechDetected

\* C6: evaluateLineLocally never throws on a malformed correct line: when the
\* correct argument is null or another value that is no string, it returns
\* the "nothing to check" result with score 100.
C6_MalformedIsNothingToCheck ==
    pc = "done" /\ correct \in Malformed => result = NothingToCheck

\* C7: when both inputs normalize to at least one token, the score equals
\* round(100 * matchCount / correctTokenCount) capped at 100, matchCount being
\* the number of match ops; matchCount never exceeds correctTokenCount.
C7_ScoreIsRoundedRatio ==
    pc = "done" /\ Len(spokenWords) >= 1 /\ Len(correctWords) >= 1
        => /\ MatchCount(ops) <= Len(correctWords)
           /\ result.score =
                 Min(100, ExactRound(100 * MatchCount(ops), Len(correctWords)))

\* C8 as stated: for every correct line of at least 4 words, the correct line
\* with one wrong word inserted scores strictly lower than the exact match.
C8_InsertionLowersScore ==
    pc = "done" /\ previous # NoResult => result.score < previous.score

\* C8 amended: for every correct line of at least 4 words, the correct line
\* with one wrong word inserted scores the same as the exact match, 100: the
\* tokens of the inserted word are the only ops of the alignment that are no
\* match, each an insertion, and every word of the line is still matched.
C8_InsertionKeepsScore ==
    pc = "done" /\ previous # NoResult
        => /\ result.score = previous.score
           /\ previous.score = 100
           /\ MatchCount(ops) = Len(correctWords)
           /\ NonMatches(ops) # <<>>
           /\ \A k \in DOMAIN ops : ops[k].type \in {"match", "ins"}

\* The second attempt, its wrong word in the middle of the line
C8_Witness ==
    /\ pc = "done" /\ previous # NoResult
    /\ Len(correctWords) >= 4
    /\ \E k \in 2..(Len(ops) - 1) : ops[k].type = "ins"
    /\ result.score = 100

\* C9: the corrections field of the result is present only when score < 90; a
\* result with score >= 90 never carries corrections.
C9_CorrectionsOnlyBelowNinety == pc = "done" /\ HasCorrections => result.score < 90

\* A line with one word of ten wrong: score 90, and nothing listed
C9_Witness ==
    /\ pc = "done" /\ result.score = 90
    /\ Len(NonMatches(ops)) = 1
    /\ ~HasCorrections

\* The correct line has ten words and each was said as another word
AllTenSubstituted ==
    /\ correctWords = Words(1, 10)
    /\ spokenWords = Wrongs(1, 10)

\* C10: corrections never lists more than 5 items; the items are the first ops
\* of the alignment that are no match, in the order of the alignment, each
\* rendered after its kind and joined by "; "; and a line of 10 words said
\* with all 10 substituted gets exactly the first 5 substitutions and then
\* the "..." marker.
C10_CorrectionsCap ==
    pc = "done" =>
        /\ HasCorrections =>
              LET others == NonMatches(ops)
                  listed == [i \in 1..Min(5, Len(others)) |-> RenderOp(others[i])]
              IN  result.corrections \in {Join(listed), Join(Append(listed, Ellipsis))}
        /\ AllTenSubstituted =>
              /\ HasCorrections
              /\ result.corrections =
                    Join([i \in 1..6 |->
                            IF i = 6 THEN <<"...">>
                            ELSE <<"said \"">> \o Wrong(i) \o <<"\" -> correct: \"">>
                                 \o Word(i) \o <<"\"">>])

\* The line of ten words, all substituted
C10_Witness ==
    /\ pc = "done" /\ AllTenSubstituted
    /\ Len(NonMatches(ops)) = 10
    /\ HasCorrections

\* The text of corrections holds the "..." marker
HasMarker == HasCorrections /\ \E i \in DOMAIN result.corrections : result.corrections[i] = "..."

\* C11: the "..." marker is appended to corrections only if the list was
\* truncated, that is only when the alignment holds more than 5 ops that are
\* no match; with 5 or fewer of them, wherever the matches fall, corrections
\* holds no "..." marker.
C11_MarkerOnlyIfTruncated ==
    pc = "done" /\ HasMarker => Len(NonMatches(ops)) > 5

\* C12: when both inputs normalize to at least one token, the feedback is
\* chosen by the first band the score falls in: >= 95 'Nailed it!', else >= 80
\* 'Good ...', else >= 60 'Getting there ...', else >= 40 'Partial ...', else
\* 'Not quite ...'; the message is determined by the score alone.
C12_FeedbackBands ==
    pc = "done" /\ Len(spokenWords) >= 1 /\ Len(correctWords) >= 1
        => /\ result.score \in 95..100 <=> result.feedback = "Nailed it!"
           /\ result.score \in 80..94
                 <=> result.feedback = "Good -- just a few words off."
           /\ result.score \in 60..79
                 <=> result.feedback =
                        "Getting there -- you have the idea, but check the exact wording."
           /\ result.score \in 40..59
                 <=> result.feedback =
                        "Partial -- you got part of it. Take another look at the full line."
           /\ result.score \in 0..39
                 <=> result.feedback =
                        "Not quite -- try reading the line again before your next attempt."

\* The score just below the first band: 17 words of 18
C12_Witness ==
    /\ pc = "done" /\ result.score = 94
    /\ result.feedback = "Good -- just a few words off."

-----------------------------------------------------------------------------
(* Properties of align *)

\* The tokens an alignment holds on one side, in order
SideOf(alignment, side, types) ==
    LET kept == SelectSeq(alignment, LAMBDA o : o.type \in types)
    IN  [k \in DOMAIN kept |-> kept[k][side]]

\* The unit-cost edit distance between the first i tokens of a and the first
\* j tokens of b, by its definition
RECURSIVE Levenshtein(_, _, _, _)
Levenshtein(a, b, i, j) ==
    IF i = 0 THEN j
    ELSE IF j = 0 THEN i
    ELSE IF a[i] = b[j] THEN Levenshtein(a, b, i - 1, j - 1)
    ELSE 1 + Min3(Levenshtein(a, b, i - 1, j - 1),
                  Levenshtein(a, b, i - 1, j),
                  Levenshtein(a, b, i, j - 1))

\* C13: alignment completeness: the ops returned by align, read in order,
\* give back both inputs: the correct tokens of the match, substitution and
\* deletion ops are the correct sequence, the spoken tokens of the match,
\* substitution and insertion ops are the spoken sequence; a match carries two
\* equal tokens and a substitution two different ones.
C13_AlignmentComplete ==
    pc = "done"
        => /\ SideOf(ops, "correct", {"match", "sub", "del"}) = correctWords
           /\ SideOf(ops, "spoken", {"match", "sub", "ins"}) = spokenWords
           /\ \A k \in DOMAIN ops :
                 /\ ops[k].type \in {"match", "sub", "ins", "del"}
                 /\ ops[k].type = "match" => ops[k].spoken = ops[k].correct
                 /\ ops[k].type = "sub" => ops[k].spoken # ops[k].correct

\* An alignment with an op of every kind
C13_Witness ==
    /\ pc = "done"
    /\ {ops[k].type : k \in DOMAIN ops} = {"match", "sub", "ins"}
    /\ Len(spokenWords) = 3

\* C14: alignment minimality: the number of ops that are no match equals the
\* unit-cost edit distance between the two sequences, which is the value
\* dp[m][n] of the table.
C14_AlignmentMinimal ==
    pc = "done"
        => /\ Len(NonMatches(ops))
                 = Levenshtein(spokenWords, correctWords,
                               Len(spokenWords), Len(correctWords))
           /\ Len(NonMatches(ops))
                 = Dp(DpTable(spokenWords, correctWords),
                      Len(spokenWords), Len(correctWords))

\* Two sequences at distance 2 although they differ at every position: the
\* shortest alignment shifts one of them
C14_Witness ==
    /\ pc = "done"
    /\ Len(spokenWords) = 3 /\ Len(correctWords) = 3
    /\ \A k \in 1..3 : spokenWords[k] # correctWords[k]
    /\ Len(NonMatches(ops)) = 2

-----------------------------------------------------------------------------
(* Properties of the normalizer *)

\* C15: contraction equivalence: two texts that differ only in writing a
\* contraction of the table or its expansion, in any letter case, normalize
\* to the same token sequence, so one scores 100 against the other.
C15_ContractionEquivalence ==
    pc = "done" => spokenWords = correctWords /\ result.score = 100

\* A contraction in capitals said against its expansion in lower case
C15_Witness ==
    /\ pc = "done"
    /\ "'" \in Range(spoken.value) /\ "'" \notin Range(correct.value)
    /\ spoken.value = InCase(spoken.value, "upper")
    /\ correct.value = toLowerCase(correct.value)
    /\ Len(spokenWords) > Len(SplitOnSpace(spoken.value))
    /\ result.score = 100

-----------------------------------------------------------------------------
(* Properties of wordSimilarity and pickBestAlternative *)

\* text with its words in the opposite order
ReverseWords(text) ==
    LET ws == SplitOnSpace(text)
    IN  JoinWords([k \in DOMAIN ws |-> ws[Len(ws) + 1 - k]])

\* C16: wordSimilarity(spoken, correct) is always in [0, 1]: 1 when the
\* correct text has no tokens, else 0 when the spoken text has none, else the
\* number of tokens of the correct line, counted with repetition, that occur
\* among the spoken tokens, divided by the number of tokens of the correct
\* line; it does not depend on the order of the words of either text.
C16_WordSimilarityValue ==
    similarity # NoResult =>
        LET sw == normalize(spoken.value)
            cw == normalize(correct.value)
            found == {i \in DOMAIN cw : \E j \in DOMAIN sw : sw[j] = cw[i]}
        IN  /\ 0 <= similarity.num /\ similarity.num <= similarity.den
            /\ cw = <<>> => similarity = One
            /\ cw # <<>> /\ sw = <<>> => similarity = Zero
            /\ cw # <<>> /\ sw # <<>>
                  => similarity.num * Len(cw) = Cardinality(found) * similarity.den
            /\ wordSimilarity(ReverseWords(spoken.value), correct.value) = similarity
            /\ wordSimilarity(spoken.value, ReverseWords(correct.value)) = similarity

\* A correct line that says one word twice, and a spoken text that says it
\* once, after another word
C16_Witness ==
    /\ similarity = One
    /\ LET sw == normalize(spoken.value)
           cw == normalize(correct.value)
       IN  /\ Len(cw) = 2 /\ cw[1] = cw[2]
           /\ Len(sw) = 2 /\ sw[1] # cw[1] /\ sw[2] = cw[1]

\* 100 times a Number of wordSimilarity, rounded to the nearest integer
Percent(x) == ExactRound(100 * x.num, x.den)

\* No pattern of the contraction table matches in text
NoContraction(text) == expandContractions(text) = toLowerCase(text)

\* C17 as stated: for every pair of texts, 100 * wordSimilarity(spoken,
\* correct), rounded, is never lower than the score evaluateLineLocally
\* returns for the pair.
C17_PreScreenNeverLower ==
    pc = "done" /\ similarity # NoResult => Percent(similarity) >= result.score

\* C17 amended: for every pair of texts neither of which holds a contraction
\* of the table, 100 * wordSimilarity(spoken, correct), rounded, is never
\* lower than the score evaluateLineLocally returns for the pair.
C17_PreScreenNeverLowerWithoutContractions ==
    pc = "done" /\ similarity # NoResult
    /\ NoContraction(spoken.value) /\ NoContraction(correct.value)
        => /\ Percent(similarity) >= result.score
           /\ RoundedPercent(similarity.num, similarity.den) >= result.score

\* The words of the line said in the wrong order: the pre-screen passes what
\* the alignment marks down
C17_Witness ==
    /\ pc = "done" /\ similarity = One
    /\ NoContraction(spoken.value) /\ NoContraction(correct.value)
    /\ Len(correctWords) = 2
    /\ result.score = 50

\* C18: wordSimilarity is asymmetric: there are texts a and b with
\* wordSimilarity(a, b) # wordSimilarity(b, a), because the divisor is always
\* the token count of the second argument.  Whenever every spoken word is in
\* the correct line and the correct line has a word that was not said, the
\* two values differ: the spoken text against the line is below 1, the line
\* against the spoken text is 1.
C18_Asymmetric ==
    LET sw == normalize(spoken.value)
        cw == normalize(correct.value)
        swapped == wordSimilarity(correct.value, spoken.value)
    IN  similarity # NoResult
            => /\ cw # <<>> /\ sw # <<>>
                     => /\ Len(cw) % similarity.den = 0
                        /\ Len(sw) % swapped.den = 0
               /\ sw # <<>> /\ Range(sw) \subseteq Range(cw) /\ Range(sw) # Range(cw)
                     => /\ similarity # swapped
                        /\ Greater(One, similarity)
                        /\ swapped = One

\* One word of a line of two said: a half one way, 1 the other way
C18_Witness ==
    /\ similarity = [num |-> 1, den |-> 2]
    /\ wordSimilarity(correct.value, spoken.value) = One
    /\ Len(normalize(spoken.value)) = 1

\* wordSimilarity of the i-th alternative to the correct text
SimilarityOf(i) == wordSimilarity(alternatives[i], correct.value)

\* C19: pickBestAlternative on a non-empty list returns a member of the list
\* whose wordSimilarity to the correct text is maximal; among several of
\* maximal similarity it returns the earliest in the list, and a list of one
\* element returns that element.
C19_PickBest ==
    pc = "done" /\ alternatives # <<>>
        => /\ \E i \in DOMAIN alternatives :
                 /\ best = alternatives[i]
                 /\ \A j \in DOMAIN alternatives : ~Greater(SimilarityOf(j), SimilarityOf(i))
                 /\ \A j \in 1..(i - 1) : Greater(SimilarityOf(i), SimilarityOf(j))
           /\ Len(alternatives) = 1 => best = alternatives[1]
           /\ alternatives = ExampleAlternatives /\ correct.value = ExampleLine
                 => best = ExampleAlternatives[2]

\* A worse candidate first, then two different candidates as good as each
\* other: the second of the list is returned
C19_Witness ==
    /\ pc = "done" /\ Len(alternatives) = 3
    /\ Greater(SimilarityOf(2), SimilarityOf(1))
    /\ SimilarityOf(2) = SimilarityOf(3)
    /\ alternatives[2] # alternatives[3]
    /\ best = alternatives[2]

-----------------------------------------------------------------------------
(* Properties of splitIntoChunks *)

\* The sentence boundaries of text: <<q, r, w>> where a run of enders begins
\* at q, whitespace follows from r, and a capital letter or a quote stands at w
Boundaries(text) ==
    {b \in (DOMAIN text) \X (DOMAIN text) \X (DOMAIN text) :
        /\ b[1] < b[2] /\ b[2] < b[3]
        /\ b[1] = 1 \/ text[b[1] - 1] \notin {".", "!", "?"}
        /\ \A k \in b[1]..(b[2] - 1) : text[k] \in {".", "!", "?"}
        /\ \A k \in b[2]..(b[3] - 1) : IsSpaceChar(text[k])
        /\ text[b[3]] \in Range(UpperLetters) \cup {"\"", "'"}}

\* The k-th boundary in text order
BoundaryNo(text, k) ==
    CHOOSE b \in Boundaries(text) :
        Cardinality({c \in Boundaries(text) : c[1] < b[1]}) = k - 1

\* C20: splitIntoChunks splits at every sentence boundary (a run of . ! ?
\* followed by whitespace and then a capital letter or a quote), keeps the
\* punctuation that ends a sentence with the chunk before it, drops empty
\* pieces and returns the chunks in text order; "Go now. Don't look back."
\* gives "Go now." and "Don't look back.".
C20_SentenceChunks ==
    pc = "done" =>
        LET text  == correct.value
            count == Cardinality(Boundaries(text))
            From(k) == IF k = 1 THEN 1 ELSE BoundaryNo(text, k - 1)[3]
            To(k)   == IF k = count + 1 THEN Len(text) ELSE BoundaryNo(text, k)[2] - 1
        IN  /\ count >= 1 =>
                  /\ Len(chunks) = count + 1
                  /\ \A k \in 1..(count + 1) :
                        /\ chunks[k] = Trim(SubSeq(text, From(k), To(k)))
                        /\ chunks[k] # <<>>
            /\ text = ExampleSentences
                  => chunks = << <<"G","o"," ","n","o","w",".">>, <<"D","o","n","'","t"," ","l","o","o","k"," ","b","a","c","k",".">> >>

\* A text of three sentences, the third opened by a quote, with the
\* whitespace between the sentences left out of the chunks
C20_Witness ==
    /\ pc = "done"
    /\ Cardinality(Boundaries(correct.value)) = 2
    /\ Len(chunks) = 3
    /\ chunks[3][1] \in {"\"", "'"}
    /\ Len(chunks[1]) + Len(chunks[2]) + Len(chunks[3]) < Len(correct.value)

\* The whitespace-delimited words of text, counted where they begin; a text
\* without ink counts for one, as the split of an empty string does
WordsIn(text) ==
    LET begins == {i \in DOMAIN text :
                      ~IsSpaceChar(text[i]) /\ (i = 1 \/ IsSpaceChar(text[i - 1]))}
    IN  IF begins = {} THEN 1 ELSE Cardinality(begins)

\* The clauses of text: <<p, q>> where text[p..q] lies between two of , ; or
\* an end of the text, and holds something other than whitespace
Clauses(text) ==
    {c \in (DOMAIN text) \X (DOMAIN text) :
        /\ c[1] <= c[2]
        /\ c[1] = 1 \/ text[c[1] - 1] \in {",", ";"}
        /\ c[2] = Len(text) \/ text[c[2] + 1] \in {",", ";"}
        /\ \A k \in c[1]..c[2] : text[k] \notin {",", ";"}
        /\ \E k \in c[1]..c[2] : ~IsSpaceChar(text[k])}

ClauseNo(text, k) ==
    CHOOSE c \in Clauses(text) :
        Cardinality({d \in Clauses(text) : d[1] < c[1]}) = k - 1

CommasIn(text) == Cardinality({k \in DOMAIN text : text[k] \in {",", ";"}})

RECURSIVE CommasInAll(_)
CommasInAll(pieces) ==
    IF pieces = <<>> THEN 0
    ELSE CommasIn(pieces[1]) + CommasInAll(SubSeq(pieces, 2, Len(pieces)))

\* C21: splitIntoChunks never returns an empty sequence; the split at commas
\* and semicolons is its result only when the text has no sentence boundary,
\* has 15 words or more and has two clauses or more; a text without sentence
\* boundary is otherwise returned alone and unchanged; isChunkable is true
\* exactly when the result has two chunks or more.
C21_StrategyPriority ==
    LET text    == correct.value
        useFall == /\ Boundaries(text) = {}
                   /\ WordsIn(text) >= 15
                   /\ Cardinality(Clauses(text)) >= 2
    IN  /\ pc = "done" =>
              /\ chunks # <<>>
              /\ useFall =>
                    /\ Len(chunks) = Cardinality(Clauses(text))
                    /\ \A k \in DOMAIN chunks :
                          chunks[k] = Trim(SubSeq(text, ClauseNo(text, k)[1],
                                                  ClauseNo(text, k)[2]))
              /\ (Boundaries(text) = {} /\ ~useFall) => chunks = <<text>>
              /\ Boundaries(text) # {} =>
                    /\ Len(chunks) >= 2
                    /\ CommasInAll(chunks) = CommasIn(text)
        /\ pc = "chunkable" =>
              result = JSBoolean(Boundaries(text) # {} \/ useFall)

\* A line of 15 words split in two at its comma, though it holds a period
\* that ends no sentence
C21_Witness ==
    /\ pc = "done"
    /\ Boundaries(correct.value) = {}
    /\ WordsIn(correct.value) = 15
    /\ Len(chunks) = 2
    /\ \E k \in DOMAIN correct.value : correct.value[k] = "."
    /\ CommasIn(correct.value) = 1
    /\ CommasInAll(chunks) = 0

\* C22: needsPunctuationTip is true if and only if the text has 15
\* whitespace-delimited words or more and none of . ! ? anywhere; the 15
\* unpunctuated words of the example give true and the same words with a
\* period at the end give false.
C22_PunctuationTip ==
    pc = "tip" =>
        LET text == correct.value
        IN  /\ result.type = "boolean"
            /\ result.value <=> /\ WordsIn(text) >= 15
                                /\ \A k \in DOMAIN text : text[k] \notin {".", "!", "?"}
            /\ text = ExampleUnpunctuated => result.value
            /\ text = ExampleUnpunctuated \o <<".">> => ~result.value

\* A line of 15 words or more denied the tip for a period in its middle
C22_Witness ==
    /\ pc = "tip"
    /\ WordsIn(correct.value) >= 15
    /\ result = JSBoolean(FALSE)
    /\ correct.value[Len(correct.value)] \notin {".", "!", "?", " ", "\""}
    /\ \E k \in DOMAIN correct.value : correct.value[k] = "."

-----------------------------------------------------------------------------
(* Properties of the practice screen *)

\* directSimilarity of the call of handleEvaluate the last handler made
DirectSimilarity == wordSimilarity(event.evaluated.value, AllMyLines[event.line])

\* C23: handleEvaluate invokes a remote evaluator only when the pre-screen
\* is inconclusive: with wordSimilarity(spoken, current line) >= 0.9 the
\* attempt gets an accurate result and no remote call is made, and with
\* wordSimilarity >= 1.0 that result has score 100.
C23_RemoteOnlyWhenInconclusive ==
    /\ event.phase = "called" =>
          /\ AtLeast(DirectSimilarity, 9, 10) =>
                /\ event.remote = "none"
                /\ practiceState = "feedback"
                /\ feedback # JSNull
                /\ feedback.accurate
          /\ AtLeast(DirectSimilarity, 1, 1) => feedback.score = 100
          /\ event.remote # "none" => ~AtLeast(DirectSimilarity, 9, 10)
    /\ \A k \in DOMAIN inFlight :
          ~AtLeast(wordSimilarity(inFlight[k].spokenText, inFlight[k].correct), 9, 10)

\* Nine of the ten words of the line said on a screen that holds an API key:
\* passed with 96 and no call made
C23_Witness ==
    /\ event.phase = "called"
    /\ DirectSimilarity = Quotient(9, 10)
    /\ settings.anthropicApiKey # <<>>
    /\ event.remote = "none"
    /\ inFlight = <<>>
    /\ feedback = NailedIt

\* practiceSimilarity of that call
PracticeSimilarity ==
    LET practiceRef == progress[event.line].practiceTranscript
    IN  IF practiceRef = JSUndefined THEN Zero
        ELSE Times(wordSimilarity(event.evaluated.value, practiceRef.value),
                   wordSimilarity(practiceRef.value, AllMyLines[event.line]))

\* The attempt the last handler passed to handleEvaluate was below the
\* confident pass, on a screen with no API key and no script token
BelowWithoutEvaluator ==
    /\ event.phase = "called"
    /\ ~AtLeast(DirectSimilarity, 9, 10)
    /\ settings.anthropicApiKey = <<>>
    /\ script.scriptToken = JSUndefined

\* C24: when the pre-screen is below the confident pass and there is neither
\* an API key nor a script token, the result of evaluateLineLocally is the
\* FeedbackResult of the attempt, which reaches the feedback state with it.
C24_LocalResultStandsAlone ==
    BelowWithoutEvaluator =>
        /\ practiceState = "feedback"
        /\ feedback = evaluateLineLocally(event.evaluated,
                                          JSString(AllMyLines[event.line])).result

\* C24 as the code has it: such an attempt, when it is also below 0.82
\* against the practice transcript of the line, gets no FeedbackResult; the
\* screen raises the Alert "Setup Required" and goes back to the cue state,
\* and no evaluator, local or remote, is called.
C24_NoEvaluatorNoFeedback ==
    (BelowWithoutEvaluator /\ ~AtLeast(PracticeSimilarity, 41, 50)) =>
        /\ practiceState = "cue"
        /\ feedback = JSNull
        /\ alert = "Setup Required"
        /\ event.remote = "none"
        /\ inFlight = <<>>

\* Three of the ten words said on a screen with no evaluator, which holds a
\* practice transcript of the line
C24_Witness ==
    /\ BelowWithoutEvaluator
    /\ DirectSimilarity = Quotient(3, 10)
    /\ progress[event.line].practiceTranscript # JSUndefined
    /\ ~AtLeast(PracticeSimilarity, 41, 50)
    /\ practiceState = "cue"
    /\ alert = "Setup Required"

\* C29: when the recognizer was restarted after a silence and earlier
\* segments were accumulated, the text the final 'end' event passes to
\* handleEvaluate is all the accumulated text followed by the last segment;
\* the alternatives of the last segment do not replace it.
C29_FullTextEvaluated ==
    (event.phase = "called" /\ event.accumulated # <<>>) =>
        event.evaluated.value =
            (IF event.segment # <<>>
             THEN Trim(Spaced(event.accumulated, event.segment))
             ELSE event.accumulated)

\* C30: after a handler has started a run at index 0, currentIndex stays 0
\* until the line at index 0 has been evaluated or the user has pressed
\* Next, whatever timer fires in between.
C30_NoStaleAdvance == event.fresh => currentIndex = 0

\* The practice transcript decides: five of the six words of the line said,
\* all five of the practice transcript, passed with 96 on a screen with no
\* evaluator
PassedOnPracticeTranscript ==
    /\ BelowWithoutEvaluator
    /\ AtLeast(PracticeSimilarity, 41, 50)
    /\ feedback = NailedIt

-----------------------------------------------------------------------------
(* Properties of the backtrack of align *)

\* The cell the backtrack is at when k of the returned ops are still to be
\* accounted for: the tokens the first k ops take from each sequence
CellBefore(alignment, k) ==
    [i |-> Cardinality({h \in 1..k : alignment[h].type \in {"match", "sub", "ins"}}),
     j |-> Cardinality({h \in 1..k : alignment[h].type \in {"match", "sub", "del"}})]

\* The type of op the priority of the claim asks for at cell (i, j)
TypeAsked(a, b, dp, i, j) ==
    IF i > 0 /\ j > 0 /\ a[i] = b[j] THEN "match"
    ELSE IF i > 0 /\ j > 0 /\ Dp(dp, i, j) = Dp(dp, i - 1, j - 1) + 1 THEN "sub"
    ELSE IF i > 0 /\ Dp(dp, i, j) = Dp(dp, i - 1, j) + 1 THEN "ins"
    ELSE "del"

\* C26: the backtrack of align has a fixed priority at every step from
\* (m, n) back to (0, 0): a match whenever the two current tokens are equal,
\* otherwise a substitution whenever dp[i][j] = dp[i-1][j-1] + 1, otherwise an
\* insertion whenever dp[i][j] = dp[i-1][j] + 1, otherwise a deletion, which
\* is only taken when a correct token remains (j > 0); it ends after at most
\* m + n steps.
C26_BacktrackPriority ==
    pc = "done"
        => LET a == spokenWords
               b == correctWords
               dp == DpTable(a, b)
           IN  /\ CellBefore(ops, Len(ops)) = [i |-> Len(a), j |-> Len(b)]
               /\ Len(ops) <= Len(a) + Len(b)
               /\ \A k \in DOMAIN ops :
                     LET at == CellBefore(ops, k)
                     IN  /\ ops[k].type = TypeAsked(a, b, dp, at.i, at.j)
                         /\ ops[k].type = "del" => at.j > 0
               /\ \A i \in 0..Len(a), j \in 0..Len(b) :
                     Dp(dp, i, j) = Levenshtein(a, b, i, j)

\* An alignment where the priority decides: at the cell of a substitution an
\* insertion lies on a shortest path too, and a deletion is taken elsewhere
C26_Witness ==
    /\ pc = "done"
    /\ \E k \in DOMAIN ops :
          LET at == CellBefore(ops, k)
              dp == DpTable(spokenWords, correctWords)
          IN  /\ ops[k].type = "sub"
              /\ Dp(dp, at.i, at.j) = Dp(dp, at.i - 1, at.j) + 1
    /\ \E k \in DOMAIN ops : ops[k].type = "del"
    /\ \E k \in DOMAIN ops : ops[k].type = "match"

\* C27: align on a sequence of no tokens: with no spoken token the result is
\* one deletion per correct token, in order; with no correct token it is one
\* insertion per spoken token, in order; with neither it is the empty
\* sequence.
C27_EmptySequences ==
    pc = "done"
        => /\ spokenWords = <<>>
                 => ops = [k \in DOMAIN correctWords
                              |-> [type |-> "del", correct |-> correctWords[k]]]
           /\ correctWords = <<>>
                 => ops = [k \in DOMAIN spokenWords
                              |-> [type |-> "ins", spoken |-> spokenWords[k]]]
           /\ (spokenWords = <<>> /\ correctWords = <<>>) => ops = <<>>

\* Nothing spoken against three different correct tokens
C27_Witness ==
    /\ pc = "done"
    /\ spokenWords = <<>>
    /\ correctWords = << <<"a">>, <<"b">>, <<"c">> >>
    /\ Len(ops) = 3

\* Three spoken tokens against no correct token
C27_WitnessInsertions ==
    /\ pc = "done"
    /\ correctWords = <<>>
    /\ Len(spokenWords) = 3
    /\ Len(ops) = 3

-----------------------------------------------------------------------------
(* Properties of tokenize *)

\* The characters a token is made of
TokenChars == Range(LowerLetters) \cup DigitChars \cup {"_"}

\* C28: tokenize succeeds on any string and returns tokens that are not
\* empty and hold only lowercase letters, digits and the underscore: no
\* uppercase letter, no punctuation, no whitespace.  The empty string, and a
\* string of nothing but whitespace or of nothing but punctuation, give the
\* empty sequence.
C28_TokensAreWords ==
    pc = "tokenized"
        => /\ spokenWords \in Seq(Seq(TokenChars))
           /\ \A k \in DOMAIN spokenWords : spokenWords[k] # <<>>
           /\ (\A i \in DOMAIN spoken.value :
                   spoken.value[i] \notin TokenChars \cup UpperChars)
                 => spokenWords = <<>>

\* A text with an uppercase letter, a mark of punctuation and whitespace
\* that gives two tokens
C28_Witness ==
    /\ pc = "tokenized"
    /\ {"B", "!", " "} \subseteq Range(spoken.value)
    /\ Len(spokenWords) = 2

\* Texts of whitespace only and of punctuation only, tokenized
C28_WitnessNoTokens ==
    /\ pc = "tokenized"
    /\ spoken.value \in {<<" ", NoBreakSpace, " ">>, <<"!", "!">>}
    /\ spokenWords = <<>>

-----------------------------------------------------------------------------
(* Properties of the calls of the core functions *)

\* What a call returns when nothing ran before it
Alone(call) ==
    IF call.fn = "tokenize" THEN tokenize(call.args[1])
    ELSE IF call.fn = "evaluateLineLocally"
    THEN evaluateLineLocally(JSString(call.args[1]), JSString(call.args[2])).result
    ELSE IF call.fn = "align" THEN align(call.args[1], call.args[2])
    ELSE IF call.fn = "splitIntoChunks" THEN splitIntoChunks(call.args[1])
    ELSE needsPunctuationTip(call.args[1])

\* C25: the core functions (evaluateLineLocally, align, tokenize,
\* splitIntoChunks, needsPunctuationTip) share no mutable state: after any
\* number of calls in any order the table of contractions is as it was
\* defined, and a call returns the same for the same arguments whichever
\* calls ran before it or between.
C25_CallsArePure ==
    /\ lastIndex = [k \in DOMAIN CONTRACTIONS |-> 0]
    /\ \A i \in DOMAIN calls : \A j \in DOMAIN calls :
          (calls[i].fn = calls[j].fn /\ calls[i].args = calls[j].args)
              => calls[i].returned = calls[j].returned
    /\ \A i \in DOMAIN calls : calls[i].returned = Alone(calls[i])

\* The same tokenize call twice, on a text that holds a contraction twice,
\* with a call of evaluateLineLocally between
C25_Witness ==
    /\ Len(calls) = 3
    /\ calls[1].fn = "tokenize" /\ calls[3] = calls[1]
    /\ calls[1].returned = << <<"c","a","n","n","o","t">>,
                              <<"c","a","n","n","o","t">> >>
    /\ calls[2].fn = "evaluateLineLocally"

====
